---- MODULE Spec2Model ----
(***************************************************************************)
(* The cycle-driven task lifecycle engine of mango-platform                *)
(* (src/core/orchestrator.py, src/core/team_communication.py).             *)
(*                                                                         *)
(* Spec        : the Task Store, the code-review workflow, the message     *)
(*               log, the scheduler phases (planning, review, execution,   *)
(*               blockers) and the approve/reject HTTP API, which runs in  *)
(*               its own thread and so interleaves with every phase.       *)
(* SpecGateway : the Generation Gateway's rate limiter (GeminiRateLimiter  *)
(*               and the quota part of GeminiClient.generate) over a       *)
(*               clock with sub-second ticks.                              *)
(*                                                                         *)
(* Identifiers are modelled by their '-'-separated fields: the task id     *)
(* "TASK-<time>-<n>" is <<"TASK", n>>, the review id                       *)
(* "REVIEW-<task id>-<time>" is <<"REVIEW", "TASK", n, stamp>>.            *)
(* An oracle reply is modelled by the fields of it that the code reads.    *)
(***************************************************************************)
EXTENDS Integers, Sequences, FiniteSets, TLC

VARIABLES
    tasks,          \* TaskManager.tasks: insertion-ordered store, one record per task
    completedOrder, \* task indices ordered by their completed_at stamp, oldest first
    reviews,        \* the code_reviews directory: one record per review file
    messages,       \* the team_messages directory (every message ever sent)
    phase,          \* where run_forever is
    cycle_count,    \* Orchestrator.cycle_count
    execQueue,      \* coroutines handed to asyncio.gather that have not started yet
    running,        \* execution units suspended in gemini.generate
    gathered,       \* units of this phase (d) that returned, each with the reply it handled
    revLeft,        \* iterations left of the loop in _process_all_pending_reviews
    revCur,         \* the review _process_pending_reviews is waiting on the oracle for
    blkQueue,       \* blockers[:3] of _process_blockers not handled yet
    requests_today, \* GeminiRateLimiter.requests_today
    tokens_today,   \* GeminiRateLimiter.tokens_today
    last_reset,     \* GeminiRateLimiter.last_reset (a day number)
    now,            \* the wall clock, in ticks
    calls,          \* per caller: where its generate call is
    recorded,       \* number of record_usage calls so far
    cache,          \* GeminiClient.cache: insertion-ordered dict
    returned,       \* what the generate call that returned last gave its caller
    deployments,    \* the deployments directory: request files, oldest first
    test_state,     \* EnvironmentManager.test_state: deployed_components
    prod_state,     \* EnvironmentManager.prod_state: deployed_components
    prod_log,       \* per component, the versions recorded in PRODUCTION so far
    env_result,        \* what the last EnvironmentManager call did and returned
    improvement,    \* the self-improvement cycle in progress
    sched,          \* run_forever's last self-evaluation, and its error handler's counts
    team_comm       \* TeamCommunication: the team_messages directory file by file, recent_messages

lifecycleVars == <<tasks, completedOrder, reviews, messages, phase, cycle_count, execQueue,
                   running, gathered, revLeft, revCur, blkQueue>>
gatewayVars == <<requests_today, tokens_today, last_reset, now, calls, recorded, cache, returned>>
deployVars == <<deployments, test_state, prod_state, prod_log, env_result>>
sideVars == <<deployVars, improvement, sched, team_comm>>
vars == <<lifecycleVars, gatewayVars, sideVars>>

\* ------------------------------------------------------------------ bounds
MaxTasks == 3
MaxReviews == 2
MaxCycles == 2

\* ------------------------------------------------------------------ roster
\* ALL_AGENTS in definition order, cut down to the coordinator, two developers
\* and one Mango agent.
Roster == <<"eng_manager_001", "backend_001", "backend_002", "mango_data_001">>
RosterIds == {Roster[i] : i \in 1..Len(Roster)}
\* The agents defined with active=False.
InactiveAgents == {"mango_data_001"}
IsActive(a) == a \in RosterIds \ InactiveAgents
Marcus == "eng_manager_001"
\* The agents the oracle's task batches are addressed to.
PlanAssignees == {"backend_001", "backend_002", "mango_data_001"}
\* The first starter tasks of run_forever.
NoStarterTasks == <<>>
StarterTasks == <<"backend_001", "backend_002">>

Statuses == {"pending", "in_progress", "blocked", "in_review", "completed", "failed"}

\* ------------------------------------------------------------------ oracle replies
Reply(kind, status, blockers, files, actions, flag, reviewer, rlen, rtask, dlen, tl) ==
    [kind |-> kind, status |-> status, blockers |-> blockers, files_changed |-> files,
     actions_taken |-> actions, needs_code_review |-> flag, reviewer |-> reviewer,
     result_len |-> rlen, result_starts_task |-> rtask, description_len |-> dlen,
     has_tasks |-> tl]

\* A task that has no 'result' key yet.
NoResult == Reply("none", "none", 0, 0, 0, FALSE, "none", 0, FALSE, 0, FALSE)

\* What gemini.generate may return to _execute_single_task: a blocked report,
\* a bare summary under 20 characters, a summary with actions_taken, the
\* scenario {"files_changed": ["a.py"], "result": "implemented X"}, a reply
\* that asks for review by backend_002, and prose without JSON (under 20
\* characters, and longer).
ExecReplies == {
    Reply("dict", "blocked", 1, 0, 0, FALSE, "none", 10, FALSE, 0, FALSE),
    Reply("dict", "completed", 0, 0, 0, FALSE, "none", 10, FALSE, 0, FALSE),
    Reply("dict", "completed", 0, 0, 1, FALSE, "none", 10, FALSE, 0, FALSE),
    Reply("dict", "none", 0, 1, 0, FALSE, "none", 10, FALSE, 0, FALSE),
    Reply("dict", "completed", 0, 0, 1, TRUE, "backend_002", 10, FALSE, 0, FALSE),
    Reply("text", "none", 0, 0, 0, FALSE, "none", 10, FALSE, 0, FALSE),
    Reply("text", "none", 0, 0, 0, FALSE, "none", 60, FALSE, 0, FALSE)
}

\* _extract_json: the parsed dict, or None when the text holds no JSON object.
ExtractJson(reply) == IF reply.kind = "dict" THEN reply ELSE NoResult
Truthy(data) == data.kind = "dict"

\* A gate without the length thresholds: any non-empty result text passes.
ValidateAnyText(result) ==
    IF result.kind = "none" THEN "false"
    ELSE IF result.files_changed > 0 \/ result.actions_taken > 0 THEN "true"
    ELSE IF result.result_len > 0 THEN "true"
    ELSE "false"

\* TaskManager._validate_proof_of_work: "true", "false", or "raise" (line 324
\* evaluates the unbound name `placeholder`, a NameError, for any non-JSON
\* text of 20 characters or more).
ValidateProofOfWork(result) ==
    IF result.kind = "none" THEN "false"
    ELSE IF result.kind = "text"
    THEN IF result.result_len < 20 THEN "false" ELSE "raise"
    ELSE IF result.files_changed > 0 \/ result.actions_taken > 0 THEN "true"
    ELSE IF result.result_len > 0 /\ result.has_tasks THEN "false"
    ELSE IF result.result_len > 50 /\ ~result.result_starts_task THEN "true"
    ELSE IF result.description_len > 50 THEN "true"
    ELSE "false"

\* ------------------------------------------------------------------ identifiers
TaskId(n) == <<"TASK", n>>
ReviewId(task_id, stamp) == <<"REVIEW">> \o task_id \o <<stamp>>
\* review.id.split('-')[1]
SplitField1(id) == <<id[2]>>
\* TaskManager.tasks.get(key): the index of the task stored under key, 0 for None.
TasksGet(key) ==
    IF \E i \in 1..Len(tasks) : tasks[i].id = key
    THEN CHOOSE i \in 1..Len(tasks) : tasks[i].id = key
    ELSE 0

NoReview == <<>>

\* TaskManager.create_task
\* The task file on disk, by the fields followed: what _save_task last wrote.
Persisted(task) ==
    [status |-> task.status, result |-> task.result, blockers |-> task.blockers,
     review_id |-> task.review_id]
\* TaskManager._save_task(task_id): the file of task_id is rewritten from
\* self.tasks[task_id].
SaveTask(store, i) ==
    IF i \in 1..Len(store) THEN [store EXCEPT ![i].on_disk = Persisted(store[i])]
    ELSE store

TaskIndices(store) == [i \in 1..Len(store) |-> i]

\* A key that a task object of the oracle does not have.
Missing == "missing"

NewTask(assignee, n) ==
    [id |-> TaskId(n), assigned_to |-> assignee, title |-> TRUE, status |-> "pending",
     result |-> NoResult, blockers |-> 0, blocker_reason |-> FALSE,
     review_id |-> NoReview, reviewer |-> "none", review_feedback |-> FALSE,
     on_disk |-> [status |-> "pending", result |-> NoResult, blockers |-> 0,
                  review_id |-> NoReview]]

RECURSIVE CreateTasks(_, _)
CreateTasks(store, batch) ==
    IF batch = <<>> THEN store
    ELSE CreateTasks(Append(store, NewTask(Head(batch), Len(store))), Tail(batch))

\* A task object as the oracle returns it, by what the code reads of it:
\* whether it is a JSON object at all, its assigned_to, and whether it has a
\* title.
TaskObject(is_dict, assigned_to, title) ==
    [is_dict |-> is_dict, assigned_to |-> assigned_to, title |-> title]
WellFormed(batch) == [k \in DOMAIN batch |-> TaskObject(TRUE, batch[k], TRUE)]

\* create_task up to _save_task (lines 287-293).
StoreObject(store, obj) ==
    Append(store, [NewTask(obj.assigned_to, Len(store)) EXCEPT !.title = obj.title])

\* The loop `for task in ...: create_task(task)`.  A string raises TypeError
\* at line 288 before anything is stored; an object without assigned_to is
\* stored and saved, and then line 295 raises KeyError.  Either ends the loop.
RECURSIVE CreateTaskObjects(_, _)
CreateTaskObjects(store, batch) ==
    IF batch = <<>> THEN store
    ELSE IF ~Head(batch).is_dict THEN store
    ELSE IF Head(batch).assigned_to = Missing THEN StoreObject(store, Head(batch))
    ELSE CreateTaskObjects(StoreObject(store, Head(batch)), Tail(batch))

CreateRaises(batch) ==
    \E k \in 1..Len(batch) : ~batch[k].is_dict \/ batch[k].assigned_to = Missing

Msg(kind, from, to) ==
    [kind |-> kind, from_agent |-> from, to_agent |-> to]
\* The help_request of _process_blockers: its id names the blocked task
\* (f"unblock_{blocker_task['id']}_...", line 1407).
UnblockMsg(task_id, to) ==
    [kind |-> "unblock", from_agent |-> Marcus, to_agent |-> to, about |-> task_id]

\* ------------------------------------------------------------------ Init
\* The callers of gemini.generate: the execution units of phase (d), which run
\* concurrently, and the planning and self-evaluation calls of the main loop.
Callers == {"backend_001", "backend_002", "eng_manager_001", "self_evaluator"}
MainLoopCallers == {"eng_manager_001", "self_evaluator"}
UnitCallers == Callers \ MainLoopCallers

\* A caller that is not inside generate. Inside a call: refused is the quota
\* that made the limiter refuse it, attempts the provider requests it has sent.
Idle == [pc |-> "idle", wake |-> 0, day |-> 0, refused |-> "none",
         prompt |-> 0, attempts |-> 0]

\* GeminiClient.cache at construction; old counts entries of earlier calls that
\* no caller asks for again, entries are the later ones, oldest first.
EmptyCache == [old |-> 0, entries |-> <<>>]
NothingReturned == [caller |-> "none", prompt |-> 0, kind |-> "none", text |-> 0]

\* The components that are deployed, and their versions.
Components == {"api", "web"}
MaxVersion == 3
Versions == 1..MaxVersion

\* _load_environment_state without a state file: no deployed components.
NoComponent == [version |-> 0, status |-> "none"]
FreshEnvironment == [c \in Components |-> NoComponent]
NoOutcome == [op |-> "none", value |-> "none", component |-> "none",
              gates_hold |-> FALSE, unmet |-> {}, blockers |-> {}]
\* No self-improvement cycle has run.
NoImprovement == [phase |-> "idle", asked |-> 0, total_agents |-> 0, yes_votes |-> 0,
                  no_votes |-> 0, bugs |-> 0, status |-> "none",
                  rolled_back |-> FALSE, failure_reasons |-> {}, records |-> 0]

\* An evaluation text, by what the score regular expression reads of it: whether
\* it holds the marker "OVERALL SCORE: <n>/100", and n.
NoText == [marker |-> FALSE, score |-> -1]
\* Orchestrator.__init__: nothing evaluated, no improvement task created, no
\* cycle error handled; the attribute `paused` does not exist until a pause
\* command sets it.
NoSched == [stage |-> "boot", evaluation |-> NoText, triggered |-> FALSE,
            queued |-> FALSE, errors |-> 0, alerts |-> 0, paused |-> FALSE]

\* TeamCommunication.__init__ on an empty data directory.
NoTeamComm == [messages_dir |-> <<>>, recent_messages |-> <<>>]

\* EnvironmentManager and SelfImprovementCycle at construction, on an empty data directory.
SideInit ==
    /\ deployments = <<>>
    /\ test_state = FreshEnvironment
    /\ prod_state = FreshEnvironment
    /\ prod_log = [c \in Components |-> <<>>]
    /\ env_result = NoOutcome
    /\ improvement = NoImprovement
    /\ sched = NoSched
    /\ team_comm = NoTeamComm

Init ==
    /\ tasks = <<>>
    /\ completedOrder = <<>>
    /\ reviews = <<>>
    /\ messages = {}
    /\ phase = "startup"
    /\ cycle_count = 0
    /\ execQueue = <<>>
    /\ running = {}
    /\ gathered = {}
    /\ revLeft = 0
    /\ revCur = 0
    /\ blkQueue = <<>>
    /\ requests_today = 0
    /\ tokens_today = 0
    /\ last_reset = 0
    /\ now = 0
    /\ calls = [c \in Callers |-> Idle]
    /\ recorded = 0
    /\ cache = EmptyCache
    /\ returned = NothingReturned
    /\ SideInit

\* run_forever, lines 709-756: seed the starter tasks when the store is empty.
Seed ==
    /\ phase = "startup"
    /\ tasks' = IF Len(tasks) = 0 THEN CreateTasks(tasks, StarterTasks) ELSE tasks
    /\ phase' = "loop"
    /\ UNCHANGED <<completedOrder, reviews, messages, execQueue, running, revLeft,
                   revCur, blkQueue>>
    /\ UNCHANGED <<cycle_count, gathered, gatewayVars, sideVars>>

\* run_forever, lines 769-771: a new cycle begins.
CycleStart ==
    /\ phase = "loop"
    /\ cycle_count < MaxCycles
    /\ cycle_count' = cycle_count + 1
    /\ phase' = "plan"
    /\ UNCHANGED <<tasks, completedOrder, reviews, messages, execQueue, running,
                   revLeft, revCur, blkQueue, gathered>>
    /\ UNCHANGED <<gatewayVars, sideVars>>

\* _engineering_manager_cycle, lines 969-979: every task object of the oracle's
\* batch is stored with create_task.
Batches(n) == UNION {[1..k -> PlanAssignees] : k \in 0..(IF n < 0 THEN 0 ELSE n)}

\* Lines 857-868 and 908: the planning prompt reads ['title'] of the current
\* task (the first pending or in_progress one) of each of the first fifteen
\* roster agents after eng_manager_001; this is outside the try block.
CurrentTask(store, agent_id) ==
    LET own == SelectSeq(TaskIndices(store), LAMBDA i :
                   store[i].assigned_to = agent_id
                   /\ store[i].status \in {"pending", "in_progress"})
    IN IF own = <<>> THEN 0 ELSE Head(own)
PlanningRaises(store) ==
    \E a \in RosterIds \ {Marcus} :
        CurrentTask(store, a) # 0 /\ ~store[CurrentTask(store, a)].title

\* Lines 977-1006: the except branch creates the fallback tasks when the
\* store is empty.
FallbackTasks == <<"backend_001", "backend_002", "backend_001">>
Planned(store, batch) ==
    LET created == CreateTaskObjects(store, batch) IN
    IF CreateRaises(batch) /\ Len(created) = 0
    THEN CreateTasks(created, FallbackTasks) ELSE created

\* An exception that leaves a phase reaches the except branch of run_forever
\* (lines 824-830): an alert, a sleep, and the next cycle.
PlanFrom(batches) ==
    /\ phase = "plan"
    /\ IF PlanningRaises(tasks)
       THEN tasks' = tasks /\ phase' = "loop"
       ELSE /\ \E batch \in batches : tasks' = Planned(tasks, batch)
            /\ phase' = "review"
    /\ UNCHANGED <<completedOrder, reviews, messages, execQueue, running, revLeft,
                   revCur, blkQueue>>
    /\ UNCHANGED <<cycle_count, gathered, gatewayVars, sideVars>>

\* The oracle's batch holds well-formed task objects.
Plan == PlanFrom({WellFormed(batch) : batch \in Batches(MaxTasks - Len(tasks))})

\* ------------------------------------------------------------------ code review
ReviewIndex(id) ==
    IF \E r \in 1..Len(reviews) : reviews[r].id = id
    THEN CHOOSE r \in 1..Len(reviews) : reviews[r].id = id
    ELSE 0

\* TeamCommunication.get_pending_reviews_for_agent
PendingReviewsFor(agent) ==
    {r \in 1..Len(reviews) : reviews[r].to_agent = agent /\ reviews[r].status = "pending"}

Min(a, b) == IF a < b THEN a ELSE b
Max(a, b) == IF a > b THEN a ELSE b

\* What gemini.generate may return to _process_pending_reviews, by what the
\* code reads of it: the decision field, its absence, or text without JSON.
ReviewReplies == {"approved", "changes_requested", "no_decision", "unparseable"}
\* review_data.get('decision', 'approved')
Decision(reply) == IF reply = "no_decision" THEN "approved" ELSE reply

\* The result text the review phase hands to complete_task (line 1531).
ApprovalText == Reply("text", "none", 0, 0, 0, FALSE, "none", 60, FALSE, 0, FALSE)
\* The default of task.get('result', 'Code review approved'): 20 characters.
DefaultApproveText == Reply("text", "none", 0, 0, 0, FALSE, "none", 20, FALSE, 0, FALSE)

\* TaskManager.complete_task on the store: the task is completed only when the
\* result validates.
CompleteTask(store, i, result) ==
    IF i \in 1..Len(store) /\ ValidateProofOfWork(result) = "true"
    THEN SaveTask([store EXCEPT ![i].status = "completed", ![i].result = result], i)
    ELSE store

\* The completed_at stamps after complete_task(i) succeeded.
Stamp(order, i) == Append(SelectSeq(order, LAMBDA j : j # i), i)

\* _process_all_pending_reviews, lines 1435-1447: up to three rounds.
ReviewPhaseBegin ==
    /\ phase = "review"
    /\ LET n == Min(3, Cardinality(PendingReviewsFor(Marcus))) IN
           /\ revLeft' = n
           /\ phase' = IF n = 0 THEN "exec" ELSE "reviewing"
    /\ UNCHANGED <<tasks, completedOrder, reviews, messages, execQueue, running,
                   revCur, blkQueue>>
    /\ UNCHANGED <<cycle_count, gathered, gatewayVars, sideVars>>

\* _process_pending_reviews up to the oracle call: the first pending review in
\* directory order, which is any of them.
ReviewStart ==
    /\ phase = "reviewing" /\ revCur = 0 /\ revLeft > 0
    /\ \E r \in PendingReviewsFor(Marcus) : revCur' = r
    /\ UNCHANGED <<tasks, completedOrder, reviews, messages, phase, execQueue,
                   running, revLeft, blkQueue>>
    /\ UNCHANGED <<cycle_count, gathered, gatewayVars, sideVars>>

\* _process_pending_reviews returning at line 1457: nothing is pending any more.
ReviewSkip ==
    /\ phase = "reviewing" /\ revCur = 0 /\ revLeft > 0
    /\ PendingReviewsFor(Marcus) = {}
    /\ revLeft' = revLeft - 1
    /\ phase' = IF revLeft = 1 THEN "exec" ELSE phase
    /\ UNCHANGED <<tasks, completedOrder, reviews, messages, execQueue, running,
                   revCur, blkQueue>>
    /\ UNCHANGED <<cycle_count, gathered, gatewayVars, sideVars>>

\* _process_pending_reviews from the oracle's reply on, lines 1515-1548.
ReviewFinish ==
    /\ phase = "reviewing" /\ revCur # 0
    /\ \E reply \in ReviewReplies :
        LET review == reviews[revCur]
            t == TasksGet(SplitField1(review.id))
        IN IF reply = "unparseable"
           THEN UNCHANGED <<tasks, completedOrder, reviews, messages>>
           ELSE IF Decision(reply) = "approved"
           THEN /\ reviews' = [reviews EXCEPT ![revCur].status = "approved",
                                              ![revCur].decided_by = Marcus,
                                              ![revCur].reply = reply]
                /\ messages' = messages \cup
                       {Msg("approval", Marcus, review.from_agent)}
                /\ tasks' = IF t # 0 THEN CompleteTask(tasks, t, ApprovalText) ELSE tasks
                /\ completedOrder' =
                       IF t # 0 /\ ValidateProofOfWork(ApprovalText) = "true"
                       THEN Stamp(completedOrder, t) ELSE completedOrder
           ELSE /\ reviews' = [reviews EXCEPT ![revCur].status = "changes_requested",
                                              ![revCur].decided_by = Marcus,
                                              ![revCur].reply = reply]
                /\ messages' = messages \cup
                       {Msg("changes", Marcus, review.from_agent)}
                /\ tasks' = IF t # 0
                            THEN SaveTask([tasks EXCEPT ![t].status = "pending",
                                                        ![t].review_feedback = TRUE], t)
                            ELSE tasks
                /\ UNCHANGED completedOrder
    /\ revCur' = 0
    /\ revLeft' = revLeft - 1
    /\ phase' = IF revLeft = 1 THEN "exec" ELSE phase
    /\ UNCHANGED <<execQueue, running, blkQueue>>
    /\ UNCHANGED <<cycle_count, gathered, gatewayVars, sideVars>>

\* ------------------------------------------------------------------ execution
\* _execute_all_tasks, lines 1011-1037: the first pending task of every agent
\* that is not an inactive roster agent, in store order.
ExecOrder ==
    SelectSeq(TaskIndices(tasks), LAMBDA i :
        /\ tasks[i].status = "pending"
        /\ ~(tasks[i].assigned_to \in RosterIds /\ ~IsActive(tasks[i].assigned_to))
        /\ \A j \in 1..(i - 1) :
               ~(tasks[j].status = "pending"
                 /\ tasks[j].assigned_to = tasks[i].assigned_to))

\* Line 1015 reads task['assigned_to'] of every pending task: KeyError for a
\* task stored without it, before any coroutine is created.
SelectionRaises(store) ==
    \E i \in 1..Len(store) :
        store[i].status = "pending" /\ store[i].assigned_to = Missing

ExecPhaseBegin ==
    /\ phase = "exec"
    /\ IF SelectionRaises(tasks)
       THEN execQueue' = execQueue /\ phase' = "loop"
       ELSE /\ execQueue' = ExecOrder
            /\ phase' = IF ExecOrder = <<>> THEN "blockers" ELSE "executing"
    /\ UNCHANGED <<tasks, completedOrder, reviews, messages, running, revLeft,
                   revCur, blkQueue>>
    /\ UNCHANGED <<cycle_count, gathered, gatewayVars, sideVars>>

\* Lines 1080-1082: the in_progress and in_review tasks of another agent.
OtherTasks(store, other) ==
    SelectSeq(TaskIndices(store), LAMBDA j :
        store[j].assigned_to = other
        /\ store[j].status \in {"in_progress", "in_review"})

\* Lines 1077-1085: `for task in other_tasks[:2]` rebinds the local `task`;
\* after the loop over the roster it is the last task iterated, if any.
RECURSIVE AfterTeammates(_, _, _, _)
AfterTeammates(store, agent_id, k, task) ==
    IF k > Len(Roster) THEN task
    ELSE LET others == OtherTasks(store, Roster[k]) IN
         IF Roster[k] = agent_id \/ others = <<>>
         THEN AfterTeammates(store, agent_id, k + 1, task)
         ELSE AfterTeammates(store, agent_id, k + 1, others[Min(2, Len(others))])

\* Lines 1092-1101: `for task in recent_completed` rebinds `task` again: to the
\* last of the five most recently completed tasks.
AfterRecentCompleted(store, order, task) ==
    LET completed == SelectSeq(order, LAMBDA j : store[j].status = "completed") IN
    IF completed = <<>> THEN task ELSE completed[Max(1, Len(completed) - 4)]

\* The task object the name `task` is bound to when line 1115 is reached.
TaskAfterContext(store, order, agent_id, task) ==
    AfterRecentCompleted(store, order, AfterTeammates(store, agent_id, 1, task))

\* _execute_single_task up to the oracle call (lines 1045-1165): an unknown
\* agent returns at once, and a task without title raises KeyError at line
\* 1052, which gather keeps; otherwise the task handed in is marked
\* in_progress and the team context is built.
UnitStart ==
    /\ phase = "executing" /\ execQueue # <<>>
    /\ LET i == Head(execQueue)
           a == tasks[i].assigned_to
           marked == SaveTask([tasks EXCEPT ![i].status = "in_progress"], i)
       IN IF a \notin RosterIds \/ ~tasks[i].title
          THEN UNCHANGED <<tasks, running>>
          ELSE /\ tasks' = marked
               /\ running' = running \cup
                      {[agent |-> a, task_id |-> i,
                        task |-> TaskAfterContext(marked, completedOrder, a, i)]}
    /\ execQueue' = Tail(execQueue)
    /\ UNCHANGED <<completedOrder, reviews, messages, phase, revLeft, revCur, blkQueue>>
    /\ UNCHANGED <<cycle_count, gathered, gatewayVars, sideVars>>

\* Lines 1239-1242.
NeedsReview(data) ==
    Truthy(data) /\ (data.needs_code_review \/ data.files_changed > 0)

\* result_data.get('reviewer', 'eng_manager_001')
ReviewerOf(data) == IF data.reviewer = "none" THEN Marcus ELSE data.reviewer

\* _execute_single_task from the oracle's reply on (lines 1172-1293).  u.task is
\* the object the name `task` is bound to, u.task_id the id read at line 1050.
UnitFinish ==
    /\ phase = "executing"
    /\ \E u \in running, reply \in ExecReplies :
        LET data == ExtractJson(reply)
            proof == ValidateProofOfWork(reply)
            review_id == ReviewId(tasks[u.task_id].id, Len(reviews) + 1)
        IN
        /\ running' = running \ {u}
        /\ gathered' = gathered \cup {[agent |-> u.agent, task_id |-> u.task_id,
                                task |-> u.task, reply |-> reply]}
        /\ IF Truthy(data) /\ data.status = "blocked"
           THEN \* lines 1180-1191
                /\ tasks' = SaveTask([tasks EXCEPT ![u.task].status = "blocked",
                                                   ![u.task].blockers = data.blockers],
                                      u.task_id)
                /\ messages' = IF data.blockers > 0
                               THEN messages \cup
                                    {Msg("blocker", u.agent, Marcus)}
                               ELSE messages
                /\ UNCHANGED <<completedOrder, reviews>>
           ELSE IF proof = "raise"
           THEN \* lines 1283-1293
                /\ tasks' = SaveTask([tasks EXCEPT ![u.task].status = "failed"],
                                      u.task_id)
                /\ messages' = messages \cup
                       {Msg("blocker", u.agent, Marcus)}
                /\ UNCHANGED <<completedOrder, reviews>>
           ELSE IF proof = "false"
           THEN \* lines 1197-1235
                /\ tasks' = SaveTask([tasks EXCEPT ![u.task].status = "blocked",
                                                   ![u.task].blocker_reason = TRUE,
                                                   ![u.task].result = reply],
                                      u.task_id)
                /\ messages' = messages \cup
                       {Msg("proof_request", Marcus, u.agent)}
                /\ UNCHANGED <<completedOrder, reviews>>
           ELSE IF NeedsReview(data)
           THEN \* lines 1244-1273
                /\ Len(reviews) < MaxReviews
                /\ reviews' = Append(reviews,
                       [id |-> review_id, from_agent |-> u.agent,
                        to_agent |-> ReviewerOf(data),
                        pr_url |-> tasks[u.task_id].id, status |-> "pending",
                        decided_by |-> "none", reply |-> "none"])
                /\ messages' = messages \cup
                       {Msg("review_req", u.agent, ReviewerOf(data))}
                /\ tasks' = SaveTask([tasks EXCEPT ![u.task].status = "in_review",
                                                   ![u.task].review_id = review_id,
                                                   ![u.task].reviewer = ReviewerOf(data),
                                                   ![u.task].result = reply],
                                      u.task_id)
                /\ UNCHANGED completedOrder
           ELSE \* lines 1277-1281
                /\ tasks' = CompleteTask(tasks, u.task_id, reply)
                /\ completedOrder' = Stamp(completedOrder, u.task_id)
                /\ UNCHANGED <<reviews, messages>>
    /\ UNCHANGED <<phase, execQueue, revLeft, revCur, blkQueue>>
    /\ UNCHANGED <<cycle_count, gatewayVars, sideVars>>

\* asyncio.gather returned (line 1040).
ExecPhaseEnd ==
    /\ phase = "executing" /\ execQueue = <<>> /\ running = {}
    /\ phase' = "blockers"
    /\ gathered' = {}
    /\ UNCHANGED <<tasks, completedOrder, reviews, messages, execQueue, running,
                   revLeft, revCur, blkQueue>>
    /\ UNCHANGED <<cycle_count, gatewayVars, sideVars>>

\* ------------------------------------------------------------------ blockers
Take(seq, n) == SubSeq(seq, 1, Min(n, Len(seq)))

\* _process_blockers, lines 1347-1356.
BlockersBegin ==
    /\ phase = "blockers"
    /\ LET blockers == SelectSeq(TaskIndices(tasks),
                                 LAMBDA i : tasks[i].status = "blocked") IN
           /\ blkQueue' = Take(blockers, 3)
           /\ phase' = IF blockers = <<>> THEN "loop" ELSE "unblocking"
    /\ UNCHANGED <<tasks, completedOrder, reviews, messages, execQueue, running,
                   revLeft, revCur>>
    /\ UNCHANGED <<cycle_count, gathered, gatewayVars, sideVars>>

\* What gemini.generate may return to _process_blockers: text without JSON, a
\* plan, or a plan with one helper task.
BlockerReplies == {"unparseable", "solution", "helper"}

\* One iteration of the loop of _process_blockers, lines 1356-1433; an
\* exception of create_task is caught at line 1432.
BlockerStepFrom(helpers) ==
    /\ phase = "unblocking" /\ blkQueue # <<>>
    /\ LET b == Head(blkQueue) IN
       IF tasks[b].blockers = 0
       THEN UNCHANGED <<tasks, messages>>
       ELSE \E reply \in BlockerReplies, helper \in helpers :
            /\ reply = "helper" => Len(tasks) < MaxTasks
            /\ messages' = IF reply = "unparseable" THEN messages
                           ELSE messages \cup
                                {UnblockMsg(tasks[b].id, tasks[b].assigned_to)}
            /\ tasks' = IF reply = "helper"
                        THEN CreateTaskObjects(tasks, <<helper>>) ELSE tasks
    /\ blkQueue' = Tail(blkQueue)
    /\ phase' = IF Len(blkQueue) = 1 THEN "loop" ELSE phase
    /\ UNCHANGED <<completedOrder, reviews, execQueue, running, revLeft, revCur>>
    /\ UNCHANGED <<cycle_count, gathered, gatewayVars, sideVars>>

\* The helper task of the plan is a well-formed task object.
BlockerStep == BlockerStepFrom({TaskObject(TRUE, a, TRUE) : a \in PlanAssignees})

\* ------------------------------------------------------------------ HTTP API
\* approve_task, lines 1687-1734.  A NameError of the validator ends the
\* request before anything is written.
ApproveTask ==
    \E i \in 1..Len(tasks) :
        LET task == tasks[i]
            result == IF task.result = NoResult THEN DefaultApproveText ELSE task.result
            r == ReviewIndex(task.review_id)
        IN
        /\ task.status \in {"in_review", "pending"}
        /\ IF task.status = "in_review"
           THEN /\ ValidateProofOfWork(result) # "raise"
                /\ tasks' = CompleteTask(tasks, i, result)
                /\ completedOrder' = IF ValidateProofOfWork(result) = "true"
                                     THEN Stamp(completedOrder, i) ELSE completedOrder
                /\ reviews' = IF task.review_id # NoReview /\ r # 0
                              THEN [reviews EXCEPT ![r].status = "approved",
                                                   ![r].decided_by = "user"]
                              ELSE reviews
           ELSE /\ tasks' = SaveTask([tasks EXCEPT ![i].status = "in_progress"], i)
                /\ UNCHANGED <<completedOrder, reviews>>
        /\ UNCHANGED <<messages, phase, execQueue, running, revLeft, revCur, blkQueue>>
        /\ UNCHANGED <<cycle_count, gathered, gatewayVars, sideVars>>

\* reject_task, lines 1874-1902.
RejectTask ==
    \E i \in 1..Len(tasks) :
        /\ tasks[i].status = "in_review"
        /\ tasks' = SaveTask([tasks EXCEPT ![i].status = "pending",
                                           ![i].review_feedback = TRUE], i)
        /\ UNCHANGED <<completedOrder, reviews, messages, phase, execQueue, running,
                       revLeft, revCur, blkQueue>>
        /\ UNCHANGED <<cycle_count, gathered, gatewayVars, sideVars>>

Next ==
    \/ Seed
    \/ CycleStart
    \/ Plan
    \/ ReviewPhaseBegin
    \/ ReviewStart
    \/ ReviewSkip
    \/ ReviewFinish
    \/ ExecPhaseBegin
    \/ UnitStart
    \/ UnitFinish
    \/ ExecPhaseEnd
    \/ BlockersBegin
    \/ BlockerStep
    \/ ApproveTask
    \/ RejectTask

Spec == Init /\ [][Next]_vars

\* ------------------------------------------------------- Generation Gateway

MAX_REQUESTS == 1400
MAX_TOKENS == 900000
\* can_make_request's default estimated_tokens.
EstimatedTokens == 3000

\* The clock: ticks per second, seconds per day, the last tick explored.
TicksPerSecond == 2
DaySeconds == 2
MaxNow == 5
DayTicks == DaySeconds * TicksPerSecond
\* At most this many generate calls are recorded in one run.
MaxCalls == 3
\* The 60 s pause after a quota error of the provider, in ticks of the model's day.
RetryTicks == 1

\* response.usage_metadata.total_token_count of a provider response.
TokenUses == {1000, 5000}
\* The counters when observation starts: a fresh day, or a day near its quota.
StartRequests == {0, MAX_REQUESTS - 1}
StartTokens == {0, MAX_TOKENS - 4000}

\* datetime.now().date()
Date(t) == t \div DayTicks

Limiter == [requests |-> requests_today, tokens |-> tokens_today, last_reset |-> last_reset]

\* reset_if_new_day
ResetIfNewDay(l) ==
    IF Date(now) # l.last_reset
    THEN [requests |-> 0, tokens |-> 0, last_reset |-> Date(now)]
    ELSE l

\* can_make_request's return value, on the limiter it has just reset.
CanMakeRequest(l) ==
    l.requests < MAX_REQUESTS /\ l.tokens + EstimatedTokens < MAX_TOKENS

\* record_usage
RecordUsage(l, tokens) ==
    [l EXCEPT !.requests = @ + 1, !.tokens = @ + tokens]

\* seconds_until_reset: int() drops the fraction of a second.
SecondsUntilReset ==
    ((Date(now) + 1) * DayTicks - now) \div TicksPerSecond

SetLimiter(l) ==
    /\ requests_today' = l.requests
    /\ tokens_today' = l.tokens
    /\ last_reset' = l.last_reset

\* The prompts: 1 planning, 2 self-evaluation, 3 task execution, 4 and 5 chat
\* messages relayed by the Telegram interface; words are the substrings
\* _fallback_response looks for that prompt.lower() contains.
PromptWords(p) ==
    CASE p = 1 -> {"task"}
      [] p = 2 -> {"task", "evaluation"}
      [] p = 3 -> {"task"}
      [] p = 4 -> {}
      [] p = 5 -> {"evaluation"}
PromptsOf(c) ==
    CASE c = "eng_manager_001" -> {1}
      [] c = "self_evaluator" -> {2}
      [] c = "backend_001" -> {3, 4}
      [] OTHER -> {3, 5}

\* The substrings of the caller id that _fallback_response looks for.
IdWords(c) ==
    CASE c = "eng_manager_001" -> {"eng_manager"}
      [] c = "self_evaluator" -> {"self_evaluator"}
      [] OTHER -> {}

\* _fallback_response: which canned payload is returned.
FallbackResponse(agent_id, prompt) ==
    IF "eng_manager" \in IdWords(agent_id) \/ "task" \in PromptWords(prompt)
    THEN "task_batch"
    ELSE IF "evaluation" \in PromptWords(prompt) \/ "self_evaluator" \in IdWords(agent_id)
    THEN "evaluation_report"
    ELSE "unable"

\* hash(prompt), within the table of a run.
HashSpace == 8
Hash(p) == p % HashSpace
\* cache_key = f"{agent_id}:{hash(prompt)}"
CacheKey(agent_id, prompt) == <<agent_id, Hash(prompt)>>

CACHE_LIMIT == 1000
CacheLen(c) == c.old + Len(c.entries)
CacheIndex(c, key) ==
    IF \E i \in 1..Len(c.entries) : c.entries[i].key = key
    THEN CHOOSE i \in 1..Len(c.entries) : c.entries[i].key = key
    ELSE 0
\* self.cache.pop(next(iter(self.cache)))
PopFirst(c) ==
    IF c.old > 0 THEN [c EXCEPT !.old = @ - 1]
    ELSE [c EXCEPT !.entries = Tail(@)]
\* self.cache[cache_key] = result: a key already present keeps its place.
Store(c, key, text) ==
    IF CacheIndex(c, key) # 0
    THEN [c EXCEPT !.entries[CacheIndex(c, key)].text = text]
    ELSE [c EXCEPT !.entries = Append(@, [key |-> key, text |-> text])]
\* Lines 156-158.
CacheInsert(c, key, text) ==
    Store(IF CacheLen(c) > CACHE_LIMIT THEN PopFirst(c) ELSE c, key, text)
\* The cache when observation starts: empty, or one entry short of the limit.
StartCache == {0, CACHE_LIMIT - 1}

\* generate, lines 127-137: the cache, then the limiter; a refused caller
\* sleeps seconds_until_reset() seconds. n counts the provider requests the
\* call has already sent.
Enter(c, p, n) ==
    LET hit == CacheIndex(cache, CacheKey(c, p)) IN
    IF hit # 0
    THEN /\ calls' = [calls EXCEPT ![c] = Idle]
         /\ returned' = [caller |-> c, prompt |-> p, kind |-> "cache",
                         text |-> cache.entries[hit].text]
         /\ UNCHANGED <<requests_today, tokens_today, last_reset>>
    ELSE LET l == ResetIfNewDay(Limiter) IN
         /\ SetLimiter(l)
         /\ UNCHANGED returned
         /\ calls' = [calls EXCEPT ![c] =
                IF CanMakeRequest(l)
                THEN [pc |-> "request", wake |-> 0, day |-> Date(now),
                      refused |-> "none", prompt |-> p, attempts |-> n + 1]
                ELSE [pc |-> "sleeping",
                      wake |-> now + SecondsUntilReset * TicksPerSecond,
                      day |-> Date(now),
                      refused |-> IF l.requests < MAX_REQUESTS THEN "tokens"
                                  ELSE "requests",
                      prompt |-> p, attempts |-> n]]

\* A call of generate. The calls of the main loop are made between phases,
\* the execution units' calls within phase (d).
Generate(c) ==
    /\ calls[c].pc = "idle"
    /\ recorded < MaxCalls
    /\ IF c \in MainLoopCallers
       THEN \A d \in Callers : calls[d].pc = "idle"
       ELSE \A d \in MainLoopCallers : calls[d].pc = "idle"
    /\ \E p \in PromptsOf(c) : Enter(c, p, 0)
    /\ UNCHANGED <<now, recorded, cache, lifecycleVars, sideVars>>

\* asyncio.sleep(wait) returns, at its deadline or later; line 139 follows.
Wake(c) ==
    /\ calls[c].pc = "sleeping"
    /\ now >= calls[c].wake
    /\ calls' = [calls EXCEPT ![c].pc = "request", ![c].attempts = @ + 1]
    /\ UNCHANGED <<requests_today, tokens_today, last_reset, now, recorded, cache,
                   returned, lifecycleVars, sideVars>>

\* The provider request returns: lines 151-169.
Respond(c) ==
    /\ calls[c].pc = "request"
    /\ \E outcome \in {"ok", "quota", "error"}, tokens \in TokenUses :
          CASE outcome = "ok" ->
                 /\ SetLimiter(RecordUsage(Limiter, tokens))
                 /\ recorded' = recorded + 1
                 /\ cache' = CacheInsert(cache, CacheKey(c, calls[c].prompt),
                                         calls[c].prompt)
                 /\ returned' = [caller |-> c, prompt |-> calls[c].prompt,
                                 kind |-> "result", text |-> calls[c].prompt]
                 /\ calls' = [calls EXCEPT ![c] = Idle]
            [] outcome = "quota" ->
                 /\ calls' = [calls EXCEPT ![c] =
                        [pc |-> "cooldown", wake |-> now + RetryTicks,
                         day |-> Date(now), refused |-> "none",
                         prompt |-> calls[c].prompt,
                         attempts |-> calls[c].attempts]]
                 /\ UNCHANGED <<requests_today, tokens_today, last_reset, recorded,
                                cache, returned>>
            [] outcome = "error" ->
                 /\ calls' = [calls EXCEPT ![c] = Idle]
                 /\ returned' = [caller |-> c, prompt |-> calls[c].prompt,
                                 kind |-> FallbackResponse(c, calls[c].prompt),
                                 text |-> 0]
                 /\ UNCHANGED <<requests_today, tokens_today, last_reset, recorded,
                                cache>>
    /\ UNCHANGED <<now, lifecycleVars, sideVars>>

\* Lines 165-166: after the pause generate calls itself.
Retry(c) ==
    /\ calls[c].pc = "cooldown"
    /\ now >= calls[c].wake
    /\ Enter(c, calls[c].prompt, calls[c].attempts)
    /\ UNCHANGED <<now, recorded, cache, lifecycleVars, sideVars>>

\* Time passes.
Tick ==
    /\ now < MaxNow
    /\ now' = now + 1
    /\ UNCHANGED <<requests_today, tokens_today, last_reset, calls, recorded, cache,
                   returned, lifecycleVars, sideVars>>

InitGateway ==
    /\ tasks = <<>>
    /\ completedOrder = <<>>
    /\ reviews = <<>>
    /\ messages = {}
    /\ phase = "startup"
    /\ cycle_count = 0
    /\ execQueue = <<>>
    /\ running = {}
    /\ gathered = {}
    /\ revLeft = 0
    /\ revCur = 0
    /\ blkQueue = <<>>
    /\ requests_today \in StartRequests
    /\ tokens_today \in StartTokens
    /\ last_reset = 0
    /\ now = 0
    /\ calls = [c \in Callers |-> Idle]
    /\ recorded = 0
    /\ cache = EmptyCache
    /\ returned = NothingReturned
    /\ SideInit

\* The concurrent generate calls of the execution units of phase (d).
NextGateway ==
    \/ \E c \in UnitCallers : Generate(c)
    \/ \E c \in UnitCallers : Wake(c)
    \/ \E c \in UnitCallers : Respond(c)
    \/ \E c \in UnitCallers : Retry(c)
    \/ Tick

SpecGateway == InitGateway /\ [][NextGateway]_vars

\* The generate calls of every caller, one at a time, on a fresh quota and a
\* cache that is empty or one entry short of its limit.
InitPayload ==
    /\ tasks = <<>>
    /\ completedOrder = <<>>
    /\ reviews = <<>>
    /\ messages = {}
    /\ phase = "startup"
    /\ cycle_count = 0
    /\ execQueue = <<>>
    /\ running = {}
    /\ gathered = {}
    /\ revLeft = 0
    /\ revCur = 0
    /\ blkQueue = <<>>
    /\ requests_today = 0
    /\ tokens_today = 0
    /\ last_reset = 0
    /\ now = 0
    /\ calls = [c \in Callers |-> Idle]
    /\ recorded = 0
    /\ \E n \in StartCache : cache = [old |-> n, entries |-> <<>>]
    /\ returned = NothingReturned
    /\ SideInit

OthersIdle(c) == \A d \in Callers \ {c} : calls[d].pc = "idle"

NextPayload ==
    \/ \E c \in Callers : OthersIdle(c) /\ Generate(c)
    \/ \E c \in Callers : OthersIdle(c) /\ Respond(c)
    \/ \E c \in Callers : OthersIdle(c) /\ Retry(c)
    \/ Tick

SpecPayload == InitPayload /\ [][NextPayload]_vars

\* ------------------------------------------------------ Environment Manager

\* The ten checks of the deployment gate, as the documentation of
\* DeploymentGate lists them.
GateChecks == {"coverage", "tests", "review", "security", "bugs", "integration",
               "performance", "load", "docs", "manual"}
\* The test-results snapshots tried: every check holds, one fails, all fail.
Snapshots ==
    {chk \in [GateChecks -> BOOLEAN] :
        Cardinality({g \in GateChecks : ~chk[g]}) \in {0, 1, Cardinality(GateChecks)}}
Unmet(chk) == {g \in GateChecks : ~chk[g]}

\* DeploymentGate.test_coverage_min
TEST_COVERAGE_MIN == 90

\* The test_results dict of a snapshot.
TestResults(chk) ==
    [coverage |-> IF chk["coverage"] THEN 95 ELSE 80,
     tests_failed |-> IF chk["tests"] THEN 0 ELSE 1,
     critical_vulns |-> IF chk["security"] THEN 0 ELSE 1,
     critical_bugs |-> IF chk["bugs"] THEN 0 ELSE 1,
     integration_tests_passed |-> chk["integration"],
     performance_benchmark_passed |-> chk["performance"],
     documentation_complete |-> chk["docs"],
     load_test_passed |-> chk["load"],
     manual_approval |-> chk["manual"]]

\* _check_deployment_gates: the blockers, each named by the check it reports.
CheckDeploymentGates(code_review_status, tr) ==
    (IF tr.coverage < TEST_COVERAGE_MIN THEN {"coverage"} ELSE {})
    \cup (IF tr.tests_failed > 0 THEN {"tests"} ELSE {})
    \cup (IF code_review_status # "approved" THEN {"review"} ELSE {})
    \cup (IF tr.critical_vulns > 0 THEN {"security"} ELSE {})
    \cup (IF tr.critical_bugs > 0 THEN {"bugs"} ELSE {})
    \cup (IF ~tr.integration_tests_passed THEN {"integration"} ELSE {})
    \cup (IF ~tr.performance_benchmark_passed THEN {"performance"} ELSE {})
    \cup (IF ~tr.documentation_complete THEN {"docs"} ELSE {})

\* json.dump(asdict(request)): the fields before environment_from are written,
\* then the Environment member raises TypeError; the file stays truncated.
TruncatedFile(c, v, n) ==
    [id |-> <<c, n>>, component |-> c, version |-> v, content |-> "truncated",
     status |-> "none", approvals |-> {}]
\* A request file holding a whole JSON document.
RequestFile(c, v, n, status) ==
    [id |-> <<c, n>>, component |-> c, version |-> v, content |-> "json",
     status |-> status, approvals |-> {}]

\* A member of the enum DeploymentStatus, and a status read back from JSON.
DeploymentStatus(s) == <<"DeploymentStatus", s>>
LoadedStatus(file) == <<"str", file.status>>

MaxDeployments == 3
\* The longest record of PRODUCTION versions that is followed.
MaxLog == 4
Approvers == {"eng_manager_001", "human", "backend_001"}

\* deploy_to_test
DeployToTest ==
    \E c \in Components, v \in Versions :
        /\ test_state' = [test_state EXCEPT ![c] = [version |-> v, status |-> "active"]]
        /\ env_result' = [NoOutcome EXCEPT !.op = "deploy_to_test", !.value = "true",
                                        !.component = c]
        /\ UNCHANGED <<deployments, prod_state, prod_log, improvement, sched,
                       lifecycleVars, gatewayVars, team_comm>>

\* request_production_deployment, lines 138-170: the first save of the request
\* raises TypeError, so the gate check of line 173 is not reached.
RequestProductionDeployment ==
    \E c \in Components, v \in Versions, chk \in Snapshots :
        /\ Len(deployments) < MaxDeployments
        /\ deployments' = Append(deployments, TruncatedFile(c, v, Len(deployments) + 1))
        /\ env_result' = [NoOutcome EXCEPT !.op = "request", !.value = "TypeError",
                                        !.component = c,
                                        !.gates_hold = (Unmet(chk) = {})]
        /\ UNCHANGED <<test_state, prod_state, prod_log, improvement, sched,
                       lifecycleVars, gatewayVars, team_comm>>

\* _check_deployment_gates applied to a request and a snapshot.
CheckGates ==
    \E chk \in Snapshots :
        /\ env_result' = [NoOutcome EXCEPT
                          !.op = "check_gates", !.value = "blockers",
                          !.gates_hold = (Unmet(chk) = {}),
                          !.unmet = Unmet(chk),
                          !.blockers = CheckDeploymentGates(
                                           IF chk["review"] THEN "approved" ELSE "pending",
                                           TestResults(chk))]
        /\ UNCHANGED <<deployments, test_state, prod_state, prod_log, improvement, sched,
                       lifecycleVars, gatewayVars, team_comm>>

FileIndex(id) ==
    IF \E i \in 1..Len(deployments) : deployments[i].id = id
    THEN CHOOSE i \in 1..Len(deployments) : deployments[i].id = id
    ELSE 0
DeploymentIds ==
    {deployments[i].id : i \in 1..Len(deployments)} \cup {<<"api", 0>>}

\* approve_deployment and _execute_production_deployment
Approve(id, approver) ==
        LET i == FileIndex(id)
            request == deployments[i]
            approvals == request.approvals \cup {approver}
            said(v) == [NoOutcome EXCEPT !.op = "approve", !.value = v,
                                         !.component = id[1]]
        IN
        /\ IF i = 0
           THEN /\ env_result' = said("false")
                /\ UNCHANGED <<deployments, prod_state, prod_log>>
           ELSE IF request.content = "truncated"
           THEN /\ env_result' = said("JSONDecodeError")
                /\ UNCHANGED <<deployments, prod_state, prod_log>>
           ELSE IF LoadedStatus(request) # DeploymentStatus("approved")
           THEN /\ env_result' = said("false")
                /\ UNCHANGED <<deployments, prod_state, prod_log>>
           ELSE IF "eng_manager_001" \in approvals \/ "human" \in approvals
           THEN /\ prod_state' = [prod_state EXCEPT ![request.component] =
                                     [version |-> request.version, status |-> "active"]]
                /\ prod_log' = [prod_log EXCEPT ![request.component] =
                                   Append(@, request.version)]
                /\ deployments' = [deployments EXCEPT ![i].content = "truncated",
                                                      ![i].status = "none"]
                /\ env_result' = said("TypeError")
           ELSE /\ deployments' = [deployments EXCEPT ![i].approvals = approvals]
                /\ env_result' = said("true")
                /\ UNCHANGED <<prod_state, prod_log>>
        /\ UNCHANGED <<test_state, improvement, sched, lifecycleVars, gatewayVars, team_comm>>

ApproveDeployment == \E id \in DeploymentIds, approver \in Approvers : Approve(id, approver)

\* The files deploy_<component>_*.json, newest first.
History(c) ==
    LET mine == SelectSeq(deployments, LAMBDA f : f.component = c) IN
    [k \in 1..Len(mine) |-> mine[Len(mine) + 1 - k]]

\* rollback_production
Rollback(c) ==
        LET deployment_history == History(c)
            said(v) == [NoOutcome EXCEPT !.op = "rollback", !.value = v, !.component = c]
        IN
        /\ Len(prod_log[c]) < MaxLog
        /\ IF prod_state[c] = NoComponent
           THEN /\ env_result' = said("false")
                /\ UNCHANGED <<prod_state, prod_log>>
           ELSE IF \E k \in 1..Len(deployment_history) :
                       deployment_history[k].content = "truncated"
           THEN /\ env_result' = said("JSONDecodeError")
                /\ UNCHANGED <<prod_state, prod_log>>
           ELSE IF Len(deployment_history) < 2
           THEN /\ env_result' = said("false")
                /\ UNCHANGED <<prod_state, prod_log>>
           ELSE /\ prod_state' = [prod_state EXCEPT ![c] =
                                     [version |-> deployment_history[2].version,
                                      status |-> "rolled_back"]]
                /\ prod_log' = [prod_log EXCEPT ![c] =
                                   Append(@, deployment_history[2].version)]
                /\ env_result' = said("true")
        /\ UNCHANGED <<deployments, test_state, improvement, sched, lifecycleVars, gatewayVars, team_comm>>

RollbackProduction == \E c \in Components : Rollback(c)

\* What the data directory holds when the EnvironmentManager is constructed:
\* nothing; a whole request file in status approved; api deployed twice; api
\* deployed once, after a request that failed its gates.
DiskStates ==
    {[files |-> <<>>, prod |-> <<>>],
     [files |-> <<RequestFile("api", 1, 1, "approved")>>, prod |-> <<>>],
     [files |-> <<RequestFile("api", 1, 1, "deployed"),
                  RequestFile("api", 2, 2, "deployed")>>, prod |-> <<1, 2>>],
     [files |-> <<RequestFile("api", 1, 1, "failed"),
                  RequestFile("api", 2, 2, "deployed")>>, prod |-> <<2>>]}

InitDeploy ==
    /\ tasks = <<>>
    /\ completedOrder = <<>>
    /\ reviews = <<>>
    /\ messages = {}
    /\ phase = "startup"
    /\ cycle_count = 0
    /\ execQueue = <<>>
    /\ running = {}
    /\ gathered = {}
    /\ revLeft = 0
    /\ revCur = 0
    /\ blkQueue = <<>>
    /\ requests_today = 0
    /\ tokens_today = 0
    /\ last_reset = 0
    /\ now = 0
    /\ calls = [c \in Callers |-> Idle]
    /\ recorded = 0
    /\ cache = EmptyCache
    /\ returned = NothingReturned
    /\ \E d \in DiskStates :
          /\ deployments = d.files
          /\ prod_log = [c \in Components |-> IF c = "api" THEN d.prod ELSE <<>>]
          /\ prod_state = [c \in Components |->
                              IF c = "api" /\ d.prod # <<>>
                              THEN [version |-> d.prod[Len(d.prod)], status |-> "active"]
                              ELSE NoComponent]
    /\ test_state = FreshEnvironment
    /\ env_result = NoOutcome
    /\ improvement = NoImprovement
    /\ sched = NoSched
    /\ team_comm = NoTeamComm

NextDeploy ==
    \/ DeployToTest
    \/ RequestProductionDeployment
    \/ CheckGates
    \/ ApproveDeployment
    \/ RollbackProduction

SpecDeploy == InitDeploy /\ [][NextDeploy]_vars

\* --------------------------------------------------- Self-Improvement Cycle

\* The number of feedback_agents that _collect_agent_feedback prompts.
PANEL_SIZE == 16

\* What a panelist's generate call gives back: a JSON vote yes or no, a yes
\* vote that lists a bug, a JSON object without deploy_vote, text without a
\* JSON object, and braces that do not parse.
Replies == {"yes", "no", "yes_bug", "no_vote", "prose", "bad_json"}

\* _analyze_test_results: passed. approval_rate is yes_votes / total_agents,
\* or 0 without feedback; approval_rate >= 0.80 is 5 * yes >= 4 * total.
RateMeetsThreshold(yes, total) == total > 0 /\ 5 * yes >= 4 * total
PassedWithoutNoVotes(yes, no, total, bugs) ==
    RateMeetsThreshold(yes, total) /\ bugs = 0
Passed(yes, no, total, bugs) ==
    RateMeetsThreshold(yes, total) /\ bugs = 0 /\ no <= 2

\* _analyze_test_results: failure_reasons
FailureReasons(yes, no, total, bugs) ==
    (IF ~RateMeetsThreshold(yes, total) THEN {"approval_rate"} ELSE {})
    \cup (IF bugs > 0 THEN {"bugs"} ELSE {})
    \cup (IF no > 2 THEN {"no_votes"} ELSE {})

\* The evaluation texts tried: without the marker, and with these scores.
EvalScores == {70, 84, 85, 100}
EvalTexts == {[marker |-> FALSE, score |-> 0]}
             \cup {[marker |-> TRUE, score |-> n] : n \in EvalScores}

\* SelfImprovementCycle._extract_score
DEFAULT_SCORE == 70
ExtractScore(evaluation_text) ==
    IF evaluation_text.marker THEN evaluation_text.score ELSE DEFAULT_SCORE

\* _generate_improvements: "Only improve if score is below 85".
SKIP_SCORE == 85

\* run_improvement_cycle up to the test deployment, for an evaluation text and
\* a proposal reply that holds a JSON object or does not.
ImprovementStart(text, parsable) ==
    IF ExtractScore(text) >= SKIP_SCORE \/ ~parsable
    THEN [NoImprovement EXCEPT !.phase = "skipped"]
    ELSE [NoImprovement EXCEPT !.phase = "collecting"]

\* run_improvement_cycle, phases 1-3: the improvements are skipped (score >= 85,
\* or no parsable proposal) and the cycle returns None, or the test deployment
\* is made and the panel is polled.
StartImprovementCycle ==
    /\ improvement.phase \in {"idle", "ended", "skipped"}
    /\ \E text \in EvalTexts, parsable \in BOOLEAN :
          improvement' = ImprovementStart(text, parsable)
    /\ UNCHANGED <<deployVars, sched, lifecycleVars, gatewayVars, team_comm>>

\* _collect_agent_feedback: one panelist is prompted and its reply handled.
CollectFeedback ==
    /\ improvement.phase = "collecting"
    /\ improvement.asked < PANEL_SIZE
    /\ \E reply \in Replies :
          improvement' =
             [improvement EXCEPT
                !.asked = @ + 1,
                !.total_agents = IF reply = "prose" THEN @ ELSE @ + 1,
                !.yes_votes = IF reply \in {"yes", "yes_bug"} THEN @ + 1 ELSE @,
                !.no_votes = IF reply \in {"no", "bad_json"} THEN @ + 1 ELSE @,
                !.bugs = IF reply = "yes_bug" THEN @ + 1 ELSE @]
    /\ UNCHANGED <<deployVars, sched, lifecycleVars, gatewayVars, team_comm>>

\* run_improvement_cycle, phases 5-6: _analyze_test_results, then deployment to
\* production or _rollback_test_branch.
AnalyzeAndDecide ==
    /\ improvement.phase = "collecting"
    /\ improvement.asked = PANEL_SIZE
    /\ LET passed == Passed(improvement.yes_votes, improvement.no_votes,
                            improvement.total_agents, improvement.bugs)
       IN improvement' =
             [improvement EXCEPT
                !.phase = "ended",
                !.status = IF passed THEN "deployed" ELSE "failed",
                !.rolled_back = ~passed,
                !.records = 1,
                !.failure_reasons =
                    IF passed THEN {}
                    ELSE FailureReasons(improvement.yes_votes, improvement.no_votes,
                                        improvement.total_agents, improvement.bugs)]
    /\ UNCHANGED <<deployVars, sched, lifecycleVars, gatewayVars, team_comm>>

InitImprove ==
    /\ tasks = <<>>
    /\ completedOrder = <<>>
    /\ reviews = <<>>
    /\ messages = {}
    /\ phase = "startup"
    /\ cycle_count = 0
    /\ execQueue = <<>>
    /\ running = {}
    /\ gathered = {}
    /\ revLeft = 0
    /\ revCur = 0
    /\ blkQueue = <<>>
    /\ requests_today = 0
    /\ tokens_today = 0
    /\ last_reset = 0
    /\ now = 0
    /\ calls = [c \in Callers |-> Idle]
    /\ recorded = 0
    /\ cache = EmptyCache
    /\ returned = NothingReturned
    /\ SideInit

NextImprove ==
    \/ StartImprovementCycle
    \/ CollectFeedback
    \/ AnalyzeAndDecide

SpecImprove == InitImprove /\ [][NextImprove]_vars

\* ------------------------------------------------------- the scheduler loop
\* run_forever at the grain of its phases, with the self-evaluation and the
\* improvement pipeline that it starts as a background task.

MaxLoopCycles == 2
MaxErrors == 2
\* The panel replies followed while the scheduler runs beside the pipeline.
PanelReplies == {"yes", "no"}

\* Orchestrator._extract_score_from_eval
DEFAULT_EVAL_SCORE == 85
ExtractScoreFromEval(evaluation_text) ==
    IF evaluation_text.marker THEN evaluation_text.score ELSE DEFAULT_EVAL_SCORE

\* _self_evaluate: "if score < 85".
TRIGGER_SCORE == 85

\* The phases of one cycle in the order of the loop body, lines 781-823.
PhaseOrder == <<"status", "plan", "review", "exec", "blockers", "selfeval", "save", "sleep">>
CyclePhases == {PhaseOrder[k] : k \in 1..Len(PhaseOrder)}
PhaseIndex(p) == CHOOSE k \in 1..Len(PhaseOrder) : PhaseOrder[k] = p
\* Where the loop is after phase p returned; due tells whether an hour has
\* passed since the last self-evaluation.
AfterPhase(p, due) ==
    IF p = "sleep" THEN "loop"
    ELSE IF p = "blockers" /\ ~due THEN "save"
    ELSE PhaseOrder[PhaseIndex(p) + 1]

\* Lines 825-830: after the alert and the sleep of 60 s, `while True` goes on.
Stopped == "stopped"
AfterBackoff == "loop"

PipelineBusy == sched.queued \/ improvement.phase = "collecting"

\* _self_evaluate, lines 583-616: the evaluation text is stored and, below the
\* trigger score, _run_improvement_cycle is created as a task, not awaited.
Evaluated(text) ==
    [sched EXCEPT !.evaluation = text,
                  !.triggered = ExtractScoreFromEval(text) < TRIGGER_SCORE,
                  !.queued = ExtractScoreFromEval(text) < TRIGGER_SCORE]
\* _self_evaluate, lines 618-645: the evaluation failed, a fallback is saved.
EvaluationFailed == [sched EXCEPT !.evaluation = NoText, !.triggered = FALSE]

\* run_forever, lines 757-766: the initial evaluation, made when the
\* evaluations directory is empty.
InitialEvaluation ==
    /\ phase = "loop" /\ sched.stage = "boot"
    /\ \E have_evals \in BOOLEAN, text \in EvalTexts \cup {NoText} :
          sched' = IF have_evals THEN [sched EXCEPT !.stage = "run"]
                   ELSE IF text = NoText
                   THEN [EvaluationFailed EXCEPT !.stage = "run"]
                   ELSE [Evaluated(text) EXCEPT !.stage = "run"]
    /\ UNCHANGED <<deployVars, improvement, lifecycleVars, gatewayVars, team_comm>>

\* Lines 769-781: the next cycle begins with the status reports.
CycleBegin ==
    /\ phase = "loop" /\ sched.stage = "run"
    /\ cycle_count < MaxLoopCycles
    /\ cycle_count' = cycle_count + 1
    /\ phase' = "status"
    /\ UNCHANGED <<tasks, completedOrder, reviews, messages, execQueue, running,
                   gathered, revLeft, revCur, blkQueue>>
    /\ UNCHANGED <<gatewayVars, sideVars>>

\* A phase other than the self-evaluation returns.  A new self-evaluation is
\* due an hour after the last one, by when a pipeline has ended.
RunPhase ==
    /\ phase \in CyclePhases \ {"selfeval"}
    /\ \E due \in BOOLEAN :
          /\ due => ~PipelineBusy
          /\ phase' = AfterPhase(phase, due)
    /\ UNCHANGED <<tasks, completedOrder, reviews, messages, execQueue, running,
                   gathered, revLeft, revCur, blkQueue, cycle_count>>
    /\ UNCHANGED <<gatewayVars, sideVars>>

\* Phase 3, lines 796-800.
SelfEvaluation ==
    /\ phase = "selfeval"
    /\ \E text \in EvalTexts \cup {NoText} :
          sched' = IF text = NoText THEN EvaluationFailed ELSE Evaluated(text)
    /\ phase' = AfterPhase(phase, TRUE)
    /\ UNCHANGED <<tasks, completedOrder, reviews, messages, execQueue, running,
                   gathered, revLeft, revCur, blkQueue, cycle_count>>
    /\ UNCHANGED <<gatewayVars, deployVars, improvement, team_comm>>

\* Lines 825-829: a phase raises; the handler logs and sends the alert.
PhaseError ==
    /\ phase \in CyclePhases
    /\ sched.errors < MaxErrors
    /\ sched' = [sched EXCEPT !.errors = @ + 1, !.alerts = @ + 1]
    /\ phase' = "error"
    /\ UNCHANGED <<tasks, completedOrder, reviews, messages, execQueue, running,
                   gathered, revLeft, revCur, blkQueue, cycle_count>>
    /\ UNCHANGED <<gatewayVars, deployVars, improvement, team_comm>>

\* Line 830: the handler's sleep ends.
Backoff ==
    /\ phase = "error"
    /\ phase' = AfterBackoff
    /\ UNCHANGED <<tasks, completedOrder, reviews, messages, execQueue, running,
                   gathered, revLeft, revCur, blkQueue, cycle_count>>
    /\ UNCHANGED <<gatewayVars, sideVars>>

\* _run_improvement_cycle, the task created by _self_evaluate, starts.
PipelineStart ==
    /\ sched.queued
    /\ improvement.phase \in {"idle", "ended", "skipped"}
    /\ \E parsable \in BOOLEAN :
          improvement' = ImprovementStart(sched.evaluation, parsable)
    /\ sched' = [sched EXCEPT !.queued = FALSE]
    /\ UNCHANGED <<deployVars, lifecycleVars, gatewayVars, team_comm>>

\* _collect_agent_feedback with the replies of PanelReplies.
PanelFeedback ==
    /\ improvement.phase = "collecting"
    /\ improvement.asked < PANEL_SIZE
    /\ \E reply \in PanelReplies :
          improvement' =
             [improvement EXCEPT
                !.asked = @ + 1,
                !.total_agents = @ + 1,
                !.yes_votes = IF reply = "yes" THEN @ + 1 ELSE @,
                !.no_votes = IF reply = "no" THEN @ + 1 ELSE @]
    /\ UNCHANGED <<deployVars, sched, lifecycleVars, gatewayVars, team_comm>>

\* The steps of run_forever itself.
LoopNext ==
    \/ Seed
    \/ InitialEvaluation
    \/ CycleBegin
    \/ RunPhase
    \/ SelfEvaluation
    \/ PhaseError
    \/ Backoff

NextLoop ==
    \/ LoopNext
    \/ PipelineStart
    \/ PanelFeedback
    \/ AnalyzeAndDecide

SpecLoop == Init /\ [][NextLoop]_vars

\* asyncio resumes run_forever after each await, so its next step is taken.
FairSpecLoop == SpecLoop /\ WF_vars(LoopNext)

\* -------------------------------------------------- the human override path
\* The approve/reject API of the orchestrator (ApproveTask, RejectTask above)
\* and of the dashboard (src/dashboard/app.py), which edits the task files,
\* over a Task Store found as the scheduler leaves it between two cycles.

\* A task as the scheduler leaves it in status st.
StoredTask(assignee, n, st) ==
    LET base == NewTask(assignee, n)
        task ==
            IF st = "blocked" THEN [base EXCEPT !.status = st, !.blockers = 1]
            ELSE IF st = "in_review"
            THEN [base EXCEPT !.status = st,
                              !.review_id = ReviewId(TaskId(n), n + 1),
                              !.reviewer = Marcus,
                              !.result = Reply("dict", "completed", 0, 0, 1, TRUE,
                                               "none", 10, FALSE, 0, FALSE)]
            ELSE IF st = "completed"
            THEN [base EXCEPT !.status = st,
                              !.result = Reply("dict", "completed", 0, 0, 1, FALSE,
                                               "none", 10, FALSE, 0, FALSE)]
            ELSE [base EXCEPT !.status = st]
    IN [task EXCEPT !.on_disk = Persisted(task)]

\* The pending review that request_code_review stored for a task in review.
StoredReview(task) ==
    [id |-> task.review_id, from_agent |-> task.assigned_to, to_agent |-> Marcus,
     pr_url |-> task.id, status |-> "pending", decided_by |-> "none",
     reply |-> "none"]

\* dashboard/app.py approve_task: the task file is read, given the status
\* 'approved' and written back.
DashboardApprove ==
    \E i \in 1..Len(tasks) :
        /\ tasks' = [tasks EXCEPT ![i].on_disk.status = "approved"]
        /\ UNCHANGED <<completedOrder, reviews, messages, phase, execQueue, running,
                       revLeft, revCur, blkQueue>>
        /\ UNCHANGED <<cycle_count, gathered, gatewayVars, sideVars>>

\* dashboard/app.py reject_task: likewise with the status 'rejected'.
DashboardReject ==
    \E i \in 1..Len(tasks) :
        /\ tasks' = [tasks EXCEPT ![i].on_disk.status = "rejected"]
        /\ UNCHANGED <<completedOrder, reviews, messages, phase, execQueue, running,
                       revLeft, revCur, blkQueue>>
        /\ UNCHANGED <<cycle_count, gathered, gatewayVars, sideVars>>

\* TaskManager._load_tasks_from_disk, when the orchestrator process is started
\* again: every task is what its file holds.
Reload ==
    /\ \E i \in 1..Len(tasks) : tasks[i].on_disk # Persisted(tasks[i])
    /\ tasks' = [i \in 1..Len(tasks) |->
                    [tasks[i] EXCEPT !.status = tasks[i].on_disk.status,
                                     !.result = tasks[i].on_disk.result,
                                     !.blockers = tasks[i].on_disk.blockers,
                                     !.review_id = tasks[i].on_disk.review_id]]
    /\ UNCHANGED <<completedOrder, reviews, messages, phase, execQueue, running,
                   revLeft, revCur, blkQueue>>
    /\ UNCHANGED <<cycle_count, gathered, gatewayVars, sideVars>>

InitOverride ==
    /\ \E s1, s2 \in Statuses :
          LET t1 == StoredTask("backend_001", 0, s1)
              t2 == StoredTask("backend_002", 1, s2)
          IN /\ tasks = <<t1, t2>>
             /\ reviews = (IF s1 = "in_review" THEN <<StoredReview(t1)>> ELSE <<>>)
                          \o (IF s2 = "in_review" THEN <<StoredReview(t2)>> ELSE <<>>)
             /\ completedOrder = (IF s1 = "completed" THEN <<1>> ELSE <<>>)
                                 \o (IF s2 = "completed" THEN <<2>> ELSE <<>>)
    /\ messages = {}
    /\ phase = "loop"
    /\ cycle_count = 1
    /\ execQueue = <<>>
    /\ running = {}
    /\ gathered = {}
    /\ revLeft = 0
    /\ revCur = 0
    /\ blkQueue = <<>>
    /\ requests_today = 0
    /\ tokens_today = 0
    /\ last_reset = 0
    /\ now = 0
    /\ calls = [c \in Callers |-> Idle]
    /\ recorded = 0
    /\ cache = EmptyCache
    /\ returned = NothingReturned
    /\ SideInit

\* A request of the override path.
OverrideStep ==
    \/ ApproveTask
    \/ RejectTask
    \/ DashboardApprove
    \/ DashboardReject

NextOverride ==
    \/ OverrideStep
    \/ Reload

SpecOverride == InitOverride /\ [][NextOverride]_vars

\* ------------------------------------------------------------- message log
\* SpecMessages follows TeamCommunication.send_message and
\* get_messages_for_agent file by file.  A message is its id, its recipient and
\* its timestamp; the id is the key of its file.  The callers build the id
\* from a prefix and a reading of the wall clock, and the timestamp from the
\* same clock: f"human_{datetime.now().timestamp()}",
\* f"status_{agent_id}_{...}", f"blocker_{agent_id}_{...}".  The wall clock
\* has a finite resolution and may be set back, so two readings can be equal.
MaxMessages == 4
MaxClock == 2

RESULT_CAP == 20
RECENT_LIMIT == 100

\* The prefixes of the ids, with the recipients their callers address.
MessagePrefixes == {"human", "status_backend_001", "blocker_backend_001"}
RecipientsOf(prefix) ==
    IF prefix = "human" THEN RosterIds
    ELSE IF prefix = "status_backend_001" THEN {"all"}
    ELSE {Marcus}

NewMessage(prefix, to_agent, t) ==
    [id |-> <<prefix, t>>, to_agent |-> to_agent, timestamp |-> t]

\* The index of the file "<id>.json" in the directory, 0 when there is none.
MessageFile(dir, id) ==
    IF \E i \in 1..Len(dir) : dir[i].id = id
    THEN CHOOSE i \in 1..Len(dir) : dir[i].id = id
    ELSE 0

\* open(msg_file, 'w') and json.dump: the file of that id is created, or
\* rewritten when it exists.
WriteMessageFile(dir, message) ==
    IF MessageFile(dir, message.id) # 0
    THEN [dir EXCEPT ![MessageFile(dir, message.id)] = message]
    ELSE Append(dir, message)

\* send_message, lines 78-92.
SendMessage ==
    /\ Len(team_comm.recent_messages) < MaxMessages
    /\ \E prefix \in MessagePrefixes :
       \E to_agent \in RecipientsOf(prefix) :
          LET message == NewMessage(prefix, to_agent, now)
              appended == Append(team_comm.recent_messages, message)
          IN team_comm' =
                [messages_dir |-> WriteMessageFile(team_comm.messages_dir, message),
                 recent_messages |-> IF Len(appended) > RECENT_LIMIT
                                     THEN Tail(appended) ELSE appended]
    /\ UNCHANGED <<lifecycleVars, gatewayVars, deployVars, improvement, sched>>

\* The wall clock between two sends.
ClockAdvance ==
    /\ now < MaxClock
    /\ now' = now + 1
    /\ UNCHANGED <<requests_today, tokens_today, last_reset, calls, recorded, cache,
                   returned, lifecycleVars, sideVars>>

\* messages.sort(key=lambda x: x.timestamp, reverse=True): a stable sort, so
\* messages of equal timestamp keep the order in which the directory listed
\* them (here: the order in which their files were created).
RECURSIVE SortNewestFirst(_)
SortNewestFirst(msgs) ==
    IF msgs = <<>> THEN <<>>
    ELSE LET sorted == SortNewestFirst(SubSeq(msgs, 1, Len(msgs) - 1))
             m == msgs[Len(msgs)]
             ahead == SelectSeq(sorted, LAMBDA x : x.timestamp >= m.timestamp)
             behind == SelectSeq(sorted, LAMBDA x : x.timestamp < m.timestamp)
         IN ahead \o <<m>> \o behind

\* get_messages_for_agent, lines 94-107.
GetMessagesForAgent(dir, agent_id) ==
    Take(SortNewestFirst(SelectSeq(dir, LAMBDA m :
             m.to_agent = agent_id \/ m.to_agent = "all")), RESULT_CAP)

\* The directory when observation starts: empty, or one message short of the
\* cap of a result, all of them broadcasts older than every new message.
OlderMessages ==
    [k \in 1..(RESULT_CAP - 1) |->
        NewMessage("status_backend_002", "all", k - RESULT_CAP)]

InitMessages ==
    /\ tasks = <<>>
    /\ completedOrder = <<>>
    /\ reviews = <<>>
    /\ messages = {}
    /\ phase = "startup"
    /\ cycle_count = 0
    /\ execQueue = <<>>
    /\ running = {}
    /\ gathered = {}
    /\ revLeft = 0
    /\ revCur = 0
    /\ blkQueue = <<>>
    /\ requests_today = 0
    /\ tokens_today = 0
    /\ last_reset = 0
    /\ now = 0
    /\ calls = [c \in Callers |-> Idle]
    /\ recorded = 0
    /\ cache = EmptyCache
    /\ returned = NothingReturned
    /\ deployments = <<>>
    /\ test_state = FreshEnvironment
    /\ prod_state = FreshEnvironment
    /\ prod_log = [c \in Components |-> <<>>]
    /\ env_result = NoOutcome
    /\ improvement = NoImprovement
    /\ sched = NoSched
    /\ \E dir \in {<<>>, OlderMessages} :
          team_comm = [messages_dir |-> dir, recent_messages |-> <<>>]

NextMessages ==
    \/ SendMessage
    \/ ClockAdvance

SpecMessages == InitMessages /\ [][NextMessages]_vars

\* ------------------------------------------------ any task objects of the oracle
\* SpecOracle is Spec with the planning and the blocker phase taking whatever
\* task objects the oracle returns: a well-formed one, an object without
\* assigned_to, objects without title (for an agent the planning prompt
\* lists, and for eng_manager_001, which it leaves out), and a string in
\* place of an object.
OracleObjects ==
    {TaskObject(TRUE, "backend_001", TRUE)}
    \cup {TaskObject(TRUE, Missing, TRUE), TaskObject(TRUE, "backend_001", FALSE),
          TaskObject(TRUE, Marcus, FALSE), TaskObject(FALSE, Missing, FALSE)}
ObjectBatches(n) == UNION {[1..k -> OracleObjects] : k \in 0..n}

PlanOracle == PlanFrom(ObjectBatches(MaxTasks - Len(tasks)))
BlockerStepOracle == BlockerStepFrom(OracleObjects)

NextOracle ==
    \/ Seed
    \/ CycleStart
    \/ PlanOracle
    \/ ReviewPhaseBegin
    \/ ReviewStart
    \/ ReviewSkip
    \/ ReviewFinish
    \/ ExecPhaseBegin
    \/ UnitStart
    \/ UnitFinish
    \/ ExecPhaseEnd
    \/ BlockersBegin
    \/ BlockerStepOracle
    \/ ApproveTask
    \/ RejectTask

SpecOracle == Init /\ [][NextOracle]_vars

\* ------------------------------------------------- a store of blocked tasks
\* SpecBlockers follows the scheduler over a Task Store that holds more
\* blocked tasks than one blocker phase takes: each of them was blocked
\* either by a reply that lists its blockers (lines 1180-1189) or for missing
\* proof of work, which writes blocker_reason and no blockers list (lines
\* 1197-1202).  The oracle plans no new task and no review is pending.
BlockedOwners == <<"backend_001", "backend_002", "backend_001", "backend_002">>

BlockedTask(n, listed) ==
    LET task == [NewTask(BlockedOwners[n + 1], n) EXCEPT
                     !.status = "blocked",
                     !.blockers = IF listed THEN 1 ELSE 0,
                     !.blocker_reason = ~listed]
    IN [task EXCEPT !.on_disk = Persisted(task)]

BlockedStores ==
    {[k \in 1..Len(BlockedOwners) |-> BlockedTask(k - 1, listed[k])] :
        listed \in [1..Len(BlockedOwners) -> BOOLEAN]}

InitBlockers ==
    /\ tasks \in BlockedStores
    /\ completedOrder = <<>>
    /\ reviews = <<>>
    /\ messages = {}
    /\ phase = "loop"
    /\ cycle_count = 0
    /\ execQueue = <<>>
    /\ running = {}
    /\ gathered = {}
    /\ revLeft = 0
    /\ revCur = 0
    /\ blkQueue = <<>>
    /\ requests_today = 0
    /\ tokens_today = 0
    /\ last_reset = 0
    /\ now = 0
    /\ calls = [c \in Callers |-> Idle]
    /\ recorded = 0
    /\ cache = EmptyCache
    /\ returned = NothingReturned
    /\ SideInit

NextBlockers ==
    \/ CycleStart
    \/ Plan
    \/ ReviewPhaseBegin
    \/ ExecPhaseBegin
    \/ BlockersBegin
    \/ BlockerStep

SpecBlockers == InitBlockers /\ [][NextBlockers]_vars

\* ------------------------------------------------------------ pause and resume
\* SpecPause is the scheduler loop of SpecLoop together with the Telegram
\* commands /pause and /resume, which the command handler runs between any
\* two steps of the loop.
\* cmd_pause_system, lines 236-239.
CmdPauseSystem ==
    /\ sched' = [sched EXCEPT !.paused = TRUE]
    /\ UNCHANGED <<deployVars, improvement, lifecycleVars, gatewayVars, team_comm>>

\* cmd_resume_system, lines 241-244.
CmdResumeSystem ==
    /\ sched' = [sched EXCEPT !.paused = FALSE]
    /\ UNCHANGED <<deployVars, improvement, lifecycleVars, gatewayVars, team_comm>>

NextPause ==
    \/ NextLoop
    \/ CmdPauseSystem
    \/ CmdResumeSystem

SpecPause == Init /\ [][NextPause]_vars

\* ================================================================== claims

\* The lifecycle graph of the Task Lifecycle Manager.
LifecycleEdges ==
    {<<"pending", "in_progress">>,
     <<"in_progress", "blocked">>, <<"in_progress", "in_review">>,
     <<"in_progress", "completed">>, <<"in_progress", "failed">>,
     <<"in_review", "completed">>, <<"in_review", "pending">>,
     <<"blocked", "pending">>}

\* C1: every change of a task's status, by a scheduler phase or by the
\* approve/reject API, follows an edge of the lifecycle graph.
C1_StatusChangesFollowEdges ==
    [][\A i \in 1..Len(tasks) :
          tasks'[i].status # tasks[i].status
              => <<tasks[i].status, tasks'[i].status>> \in LifecycleEdges]_vars

\* C2: completed and failed are terminal: a task in one of them never changes
\* status again.
C2_TerminalStatusesStay ==
    [][\A i \in 1..Len(tasks) :
          tasks[i].status \in {"completed", "failed"}
              => tasks'[i].status = tasks[i].status]_vars

\* C3: an execution unit of phase (d) writes only the task record it was
\* handed: when a unit returns, every other task record is as it was.
C3_UnitWritesOnlyItsTask ==
    [][\A u \in running :
          u \notin running'
              => \A i \in 1..Len(tasks) : i # u.task_id => tasks'[i] = tasks[i]]_vars

\* A result without any evidence field whose text is under 20 characters.
LacksProof(result) ==
    /\ result.files_changed = 0
    /\ result.actions_taken = 0
    /\ result.description_len <= 50
    /\ result.result_len < 20

\* C4: a task whose result has no evidence field and a result text under 20
\* characters is never in status completed.
C4_ProofOfWorkNecessary ==
    \A i \in 1..Len(tasks) :
        tasks[i].status = "completed" => ~LacksProof(tasks[i].result)

\* C4's case: the gate has refused a result that lacks proof (the task holds it
\* and is blocked) while another task has been completed.
C4_Witness ==
    \E i, j \in 1..Len(tasks) :
        /\ tasks[i].status = "blocked" /\ tasks[i].blocker_reason
        /\ tasks[i].result # NoResult /\ LacksProof(tasks[i].result)
        /\ tasks[j].status = "completed"

\* The reply of a finished unit went through the proof-of-work gate and failed it.
FailedGate(g) ==
    /\ ~(Truthy(ExtractJson(g.reply)) /\ g.reply.status = "blocked")
    /\ ValidateProofOfWork(g.reply) = "false"

\* C5: when the result of an executed task fails the proof-of-work predicate,
\* that same task is blocked with a recorded reason, the evidence request goes
\* to its assigned agent, and no completion and no review request is produced.
C5_MissingProofBlocksSameTask ==
    [][\A g \in gathered' \ gathered :
          FailedGate(g)
              => /\ tasks'[g.task_id].status = "blocked"
                 /\ tasks'[g.task_id].blocker_reason
                 /\ Msg("proof_request", Marcus, tasks[g.task_id].assigned_to)
                        \in messages'
                 /\ Len(reviews') = Len(reviews)]_vars

\* The reply of a finished unit passed the gate and declares a review requirement.
PassedGateNeedsReview(g) ==
    /\ ~(Truthy(ExtractJson(g.reply)) /\ g.reply.status = "blocked")
    /\ ValidateProofOfWork(g.reply) = "true"
    /\ (g.reply.needs_code_review \/ g.reply.files_changed > 0)

\* C6: a task whose result passes proof-of-work and declares a review
\* requirement moves to in_review with a pending CodeReviewRequest recorded on
\* it (review_id, reviewer).
C6_ReviewRequirementRoutesToReview ==
    [][\A g \in gathered' \ gathered :
          PassedGateNeedsReview(g)
              => /\ Len(reviews') = Len(reviews) + 1
                 /\ reviews'[Len(reviews')].status = "pending"
                 /\ tasks'[g.task_id].status = "in_review"
                 /\ tasks'[g.task_id].review_id = reviews'[Len(reviews')].id
                 /\ tasks'[g.task_id].reviewer = reviews'[Len(reviews')].to_agent]_vars

\* The review phase decided review r in this step.
DecidedByReviewPhase(r) ==
    /\ phase = "reviewing" /\ revCur = r /\ revCur' = 0
    /\ reviews'[r].status # reviews[r].status

\* C7: a reviewer decision mutates the originating task: approval moves it
\* in_review -> completed, requested changes move it in_review -> pending with
\* the feedback, and the submitter is notified.
C7_DecisionMutatesOriginatingTask ==
    [][\A r \in 1..Len(reviews) :
          LET t == TasksGet(reviews[r].pr_url) IN
          (DecidedByReviewPhase(r) /\ t # 0 /\ tasks[t].status = "in_review")
              => /\ reviews'[r].status = "approved"
                     => /\ tasks'[t].status = "completed"
                        /\ Msg("approval", Marcus, reviews[r].from_agent) \in messages'
                 /\ reviews'[r].status = "changes_requested"
                     => /\ tasks'[t].status = "pending"
                        /\ tasks'[t].review_feedback
                        /\ Msg("changes", Marcus, reviews[r].from_agent)
                               \in messages']_vars

\* C8: a CodeReviewRequest is resolved by exactly one decision: once its status
\* has left pending it never changes again.
C8_ReviewDecidedOnce ==
    [][\A r \in 1..Len(reviews) :
          reviews[r].status # "pending"
              => reviews'[r].status = reviews[r].status]_vars

\* C9: for any sequence of generate calls the counters stay within their
\* maxima: requests_today <= MAX_REQUESTS and tokens_today <= MAX_TOKENS.
C9_CountersWithinMaxima ==
    /\ requests_today <= MAX_REQUESTS
    /\ tokens_today <= MAX_TOKENS

\* C10: a call entering with the request counter at MAX_REQUESTS - 1 goes to
\* the provider; a call refused because the request counter is at MAX_REQUESTS
\* makes no provider request until the day it was refused on is over, and its
\* usage is recorded in the new window, after the counters were reset.
C10_QuotaBoundaryScenario ==
    [][\A c \in Callers :
          /\ (/\ calls[c].pc = "idle" /\ calls'[c].pc \in {"request", "sleeping"}
              /\ requests_today = MAX_REQUESTS - 1 /\ last_reset = Date(now)
              /\ tokens_today + EstimatedTokens < MAX_TOKENS)
                 => calls'[c].pc = "request"
          /\ (/\ calls[c].pc = "sleeping" /\ calls'[c].pc = "request"
              /\ calls[c].refused = "requests")
                 => Date(now) > calls[c].day
          /\ (/\ calls[c].pc = "request" /\ calls'[c].pc = "idle"
              /\ calls[c].refused = "requests" /\ recorded' = recorded + 1)
                 => /\ last_reset' = Date(now)
                    /\ requests_today' <= MAX_REQUESTS]_vars

\* The calls that passed the limiter's check and have not recorded their usage yet.
InFlight == Cardinality({c \in Callers : calls[c].pc = "request"})

\* C11: counter updates are serialized: whenever the limiter admits a call,
\* the recorded usage together with the calls already admitted and not yet
\* recorded stays within MAX_REQUESTS and MAX_TOKENS.
C11_AdmissionsSerialized ==
    [][\A c \in Callers :
          (calls[c].pc \in {"idle", "cooldown"} /\ calls'[c].pc = "request")
              => /\ requests_today' + InFlight' <= MAX_REQUESTS
                 /\ tokens_today' + InFlight' * EstimatedTokens <= MAX_TOKENS]_vars

\* C12: a rate-limit error is retried once: a generate call sends at most two
\* provider requests.
C12_AtMostTwoAttempts ==
    \A c \in Callers : calls[c].attempts <= 2

\* C13: the fallback payload fits the caller's role: the planning call of
\* eng_manager_001 gets the canned task batch, the scoring call of
\* self_evaluator gets the canned evaluation report.
C13_FallbackFitsRole ==
    returned.kind \in {"task_batch", "evaluation_report", "unable"}
        => /\ returned.caller = "eng_manager_001" => returned.kind = "task_batch"
           /\ returned.caller = "self_evaluator" => returned.kind = "evaluation_report"

CacheKeys(c) == {c.entries[i].key : i \in 1..Len(c.entries)}

\* C14: the cache never holds more than 1000 entries, an entry that leaves it
\* is the oldest one, and a call that hits it returns the stored text without
\* a provider request and without changing the quota counters.
C14_BoundedFifoCache ==
    [][/\ CacheLen(cache') <= CACHE_LIMIT
       /\ IF cache.old > 0
          THEN cache'.old \in {cache.old, cache.old - 1}
               /\ CacheKeys(cache) \subseteq CacheKeys(cache')
          ELSE /\ cache'.old = 0
               /\ \A k \in CacheKeys(cache) \ CacheKeys(cache') :
                      k = cache.entries[1].key
       /\ \A c \in Callers :
             (/\ calls[c].pc \in {"idle", "cooldown"} /\ calls'[c].pc = "idle"
              /\ returned'.kind = "cache" /\ returned'.caller = c)
                 => /\ returned'.text = returned'.prompt
                    /\ recorded' = recorded
                    /\ <<requests_today', tokens_today', last_reset'>>
                           = <<requests_today, tokens_today, last_reset>>]_vars

\* C15: request_production_deployment leaves a DeploymentRequest whose status
\* is approved exactly when all ten gate checks hold for the snapshot, and
\* failed otherwise.
C15_RequestApprovedIffGatesHold ==
    env_result.op = "request" =>
        LET request == deployments[Len(deployments)] IN
        /\ request.content = "json"
        /\ request.status = (IF env_result.gates_hold THEN "approved" ELSE "failed")

\* C16: the blocker list holds exactly one reason for each of the ten checks
\* that is false in the snapshot, and none for a check that is true.
C16_BlockersAreTheUnmetChecks ==
    env_result.op = "check_gates" => env_result.blockers = env_result.unmet

\* C17: approve_deployment writes the PRODUCTION record with the request's
\* version and sets the request to deployed exactly when the stored request is
\* approved and the approver is eng_manager_001 or human; in every other case,
\* and in deploy_to_test, PRODUCTION is left unchanged.
Authorised(id, approver) ==
    /\ FileIndex(id) # 0
    /\ deployments[FileIndex(id)].content = "json"
    /\ deployments[FileIndex(id)].status = "approved"
    /\ approver \in {"eng_manager_001", "human"}
Recorded(c) == {prod_log[c][k] : k \in 1..Len(prod_log[c])}
C19_DeployedIffCriteriaMet ==
    improvement.phase = "ended" =>
        LET rate_ok == /\ improvement.total_agents > 0
                       /\ 100 * improvement.yes_votes >= 80 * improvement.total_agents
            bugs_ok == improvement.bugs = 0
            votes_ok == improvement.no_votes <= 2
        IN
        /\ improvement.status \in {"deployed", "failed"}
        /\ improvement.status = "deployed" <=> (rate_ok /\ bugs_ok /\ votes_ok)
        /\ improvement.status = "deployed" =>
              ~improvement.rolled_back /\ improvement.failure_reasons = {}
        /\ improvement.status = "failed" =>
              /\ improvement.rolled_back
              /\ "approval_rate" \in improvement.failure_reasons <=> ~rate_ok
              /\ "bugs" \in improvement.failure_reasons <=> ~bugs_ok
              /\ "no_votes" \in improvement.failure_reasons <=> ~votes_ok

\* The scenario of 12 yes and 4 no votes from 16 panelists without a bug: the
\* cycle was rejected and rolled back.
C19_Witness ==
    /\ improvement.phase = "ended"
    /\ improvement.total_agents = PANEL_SIZE
    /\ improvement.yes_votes = 12
    /\ improvement.no_votes = 4
    /\ improvement.bugs = 0
    /\ improvement.status = "failed"
    /\ improvement.rolled_back

\* C20: the approval rate's denominator is the panel size: every panelist that
\* was prompted is counted in total_agents, whatever its reply.
C20_DenominatorIsPanelSize ==
    improvement.phase = "ended" =>
        /\ improvement.asked = PANEL_SIZE
        /\ improvement.total_agents = PANEL_SIZE

\* C21: every improvement cycle that was started and has returned has saved
\* exactly one audit record, whatever its outcome.
C21_OneAuditRecordPerCycle ==
    improvement.phase \in {"ended", "skipped"} => improvement.records = 1

\* C22: after a self-evaluation the improvement pipeline is started exactly
\* when the score of the evaluation text is below 85, a text without the
\* marker counting as the mid-range default; the trigger and the pipeline
\* extract the same score from the text.
C22_TriggerIffScoreBelowThreshold ==
    sched.evaluation # NoText =>
        /\ sched.triggered <=> (ExtractScore(sched.evaluation) < SKIP_SCORE)
        /\ ExtractScoreFromEval(sched.evaluation) = ExtractScore(sched.evaluation)

\* C23: the phases of a cycle follow one another in the fixed order, and when
\* the loop moves to the next phase the work started so far, the improvement
\* pipeline included, has finished.
PhaseEdges ==
    {<<"startup", "loop">>, <<"loop", "status">>, <<"sleep", "loop">>,
     <<"error", "loop">>, <<"blockers", "save">>}
    \cup {<<PhaseOrder[k], PhaseOrder[k + 1]>> : k \in 1..(Len(PhaseOrder) - 1)}
    \cup {<<p, "error">> : p \in CyclePhases}
C23_PhasesInOrderAndWorkFinished ==
    [][phase' # phase =>
          /\ <<phase, phase'>> \in PhaseEdges
          /\ ~PipelineBusy']_vars

\* C24: the loop does not end on a phase error: every error is answered by
\* an alert and the loop never stops, so the cycle counter goes on increasing
\* (followed here up to MaxLoopCycles).
C24_LoopSurvivesPhaseErrors ==
    /\ [](sched.alerts = sched.errors /\ phase # Stopped)
    /\ \A n \in 0..(MaxLoopCycles - 1) : (cycle_count = n) ~> (cycle_count = n + 1)

\* A cycle has begun after a phase error was handled.
C24_Witness ==
    /\ sched.errors >= 1
    /\ sched.alerts >= 1
    /\ phase = "status"
    /\ cycle_count = 2

\* C25: starting from an empty Task Store, run_forever leaves startup with at
\* least one starter task, all of them pending, so that the store is not
\* empty when the first planning phase runs, nor at any later time.
C25_StarterTasksSeeded ==
    [][/\ (phase = "startup" /\ phase' # "startup" /\ tasks = <<>>) =>
             /\ Len(tasks') >= 1
             /\ \A i \in 1..Len(tasks') : tasks'[i].status = "pending"
       /\ phase' # "startup" => Len(tasks') >= 1]_vars

\* The first planning phase is about to run on a store that holds the starter tasks.
C25_Witness ==
    /\ phase = "plan"
    /\ cycle_count = 1
    /\ Len(tasks) = Len(StarterTasks)
    /\ \A i \in 1..Len(tasks) : tasks[i].status = "pending"

\* C26: a task becomes in_progress only when the execution phase takes it,
\* pending, from its selection, and the selection of a cycle holds at most one
\* task per agent.
C26_AdmissionOnlyByExecutionPhase ==
    [][/\ \A i \in 1..Len(tasks) :
             (tasks[i].status # "in_progress" /\ tasks'[i].status = "in_progress") =>
                /\ phase = "executing"
                /\ execQueue # <<>>
                /\ i = Head(execQueue)
                /\ tasks[i].status = "pending"
       /\ \A j, k \in 1..Len(execQueue') :
             j # k => tasks'[execQueue'[j]].assigned_to # tasks'[execQueue'[k]].assigned_to]_vars

\* C27: the execution phase leaves every pending task of an inactive agent
\* pending, and no execution unit calls generate for an inactive agent.
C27_InactiveAgentsSkipped ==
    [][/\ (ExecPhaseBegin \/ UnitStart \/ UnitFinish \/ ExecPhaseEnd) =>
             \A i \in 1..Len(tasks) :
                (tasks[i].assigned_to \in InactiveAgents /\ tasks[i].status = "pending") =>
                   tasks'[i].status = "pending"
       /\ \A i \in 1..Len(execQueue') : tasks'[execQueue'[i]].assigned_to \notin InactiveAgents
       /\ \A u \in running' : u.agent \notin InactiveAgents]_vars

\* C28: when the execution of one task raises, that task is marked failed, a
\* blocker goes to eng_manager_001, and no other task and not the phase is
\* touched.
C28_ExceptionFailsOnlyItsTask ==
    [][\A g \in gathered' \ gathered :
          ValidateProofOfWork(g.reply) = "raise" =>
             /\ tasks'[g.task_id].status = "failed"
             /\ Msg("blocker", g.agent, Marcus) \in messages'
             /\ \A i \in 1..Len(tasks) : i # g.task_id => tasks'[i] = tasks[i]
             /\ phase' = phase]_vars

\* C29: at every phase boundary the file of each task holds the task's
\* in-memory status, result, blockers and review id.
PhaseBoundaries == {"loop", "plan", "review", "exec", "blockers"}
C29_DiskEqualsMemoryAtBoundaries ==
    phase \in PhaseBoundaries =>
        \A i \in 1..Len(tasks) : tasks[i].on_disk = Persisted(tasks[i])

\* C30: a request of the override path changes a task's status, in memory
\* and in its file, only along an edge of the lifecycle graph and only to an
\* enumerated status, and a task it completes has proof of work.
C30_OverrideObeysStateMachine ==
    [][OverrideStep =>
          \A i \in 1..Len(tasks) :
             /\ tasks'[i].status \in Statuses
             /\ tasks'[i].on_disk.status \in Statuses
             /\ tasks'[i].status # tasks[i].status =>
                   <<tasks[i].status, tasks'[i].status>> \in LifecycleEdges
             /\ tasks'[i].on_disk.status # tasks[i].on_disk.status =>
                   <<tasks[i].on_disk.status, tasks'[i].on_disk.status>> \in LifecycleEdges
             /\ (tasks'[i].status = "completed" /\ tasks[i].status # "completed") =>
                   ValidateProofOfWork(tasks'[i].result) = "true"]_vars

\* C31: when the blocker phase has obtained an unblock plan for a blocked task
\* and sent it to the owner, that task is pending again.
C31_UnblockedReturnsToPending ==
    [][(/\ phase = "unblocking"
        /\ blkQueue # <<>>
        /\ blkQueue' = Tail(blkQueue)
        /\ UnblockMsg(tasks[Head(blkQueue)].id, tasks[Head(blkQueue)].assigned_to)
               \in messages' \ messages) =>
           tasks'[Head(blkQueue)].status = "pending"]_vars

\* C32: sending a message leaves every message stored earlier in place and
\* unchanged, and get_messages_for_agent(a) returns only messages addressed to
\* a or to all, newest first, at most 20, none of them older than a message
\* for a that it leaves out.
C32_AppendOnlyLogQueryableByRecipient ==
    [][LET before == team_comm.messages_dir
           after == team_comm'.messages_dir
       IN /\ Len(after) >= Len(before)
          /\ \A i \in 1..Len(before) : after[i] = before[i]
          /\ \A a \in RosterIds :
                LET got == GetMessagesForAgent(after, a) IN
                /\ Len(got) <= RESULT_CAP
                /\ \A i \in 1..Len(got) : got[i].to_agent \in {a, "all"}
                /\ \A i \in 1..(Len(got) - 1) : got[i].timestamp >= got[i + 1].timestamp
                /\ \A j \in 1..Len(after) :
                      (after[j].to_agent \in {a, "all"}
                       /\ \A i \in 1..Len(got) : got[i] # after[j]) =>
                          /\ Len(got) = RESULT_CAP
                          /\ \A i \in 1..Len(got) :
                                got[i].timestamp >= after[j].timestamp]_vars

\* C33: the execution phase moves a task to in_progress only for an agent
\* that is active and owns no task in status blocked.
C33_StartsOnlyForActiveUnblockedAgents ==
    [][UnitStart =>
          \A i \in 1..Len(tasks) :
             (tasks[i].status # "in_progress" /\ tasks'[i].status = "in_progress") =>
                /\ IsActive(tasks[i].assigned_to)
                /\ \A j \in 1..Len(tasks) :
                      tasks[j].assigned_to = tasks[i].assigned_to =>
                         tasks[j].status # "blocked"]_vars

\* C34: the review phase passes no pending review by: it hands over to the
\* execution phase without asking the oracle only when no review is pending,
\* whichever reviewer the review names.
C34_PendingReviewsReachTheReviewPhase ==
    [][(phase = "review" /\ phase' = "exec") =>
          \A r \in 1..Len(reviews) : reviews[r].status # "pending"]_vars

\* C35: when the execution phase returns, no task the phase moved to
\* in_progress is still in_progress.
C35_NoTaskLeftInProgress ==
    [][ExecPhaseEnd =>
          \A g \in gathered : tasks[g.task_id].status # "in_progress"]_vars

\* C36: a malformed task object does not make a cycle abort: a cycle ends
\* before its blocker phase only when no well-formed pending task of an
\* active roster agent is waiting for the execution phase.
WellFormedPending(i) ==
    /\ tasks[i].status = "pending"
    /\ tasks[i].title
    /\ IsActive(tasks[i].assigned_to)
C36_MalformedTaskDoesNotAbortCycles ==
    [][(phase \in {"plan", "review", "reviewing", "exec", "executing"}
        /\ phase' = "loop") =>
          \A i \in 1..Len(tasks) : ~WellFormedPending(i)]_vars

\* C37: the blocker phase requests a plan for every blocked task it takes,
\* a task that already has its plan is not taken again, and no such task
\* takes the place of a blocked task that is still waiting for one.
HasPlan(i) == UnblockMsg(tasks[i].id, tasks[i].assigned_to) \in messages
C37_BlockerPhaseStarvesNoTask ==
    [][/\ (phase = "unblocking" /\ blkQueue # <<>> /\ blkQueue' = Tail(blkQueue)) =>
             tasks[Head(blkQueue)].blockers > 0
       /\ (phase = "blockers" /\ phase' = "unblocking") =>
             /\ \A k \in 1..Len(blkQueue') : ~HasPlan(blkQueue'[k])
             /\ (\E i \in 1..Len(tasks) :
                    /\ tasks[i].status = "blocked"
                    /\ ~HasPlan(i)
                    /\ \A k \in 1..Len(blkQueue') : blkQueue'[k] # i) =>
                   \A k \in 1..Len(blkQueue') : ~HasPlan(blkQueue'[k])]_vars

\* C38: a review that the review phase recorded as approved was decided on
\* a reply whose decision field is approved.
C38_ApprovedOnlyOnExplicitDecision ==
    \A r \in 1..Len(reviews) :
        (reviews[r].status = "approved" /\ reviews[r].decided_by = Marcus) =>
            reviews[r].reply = "approved"

\* C39: the execution phase selects, for every active roster agent that has
\* a pending task, that agent's earliest pending task in store order, and a
\* selected task of such an agent leaves pending when its unit starts, so
\* that the agent's next pending task is the earliest one in the next cycle.
Selected(q) == {q[k] : k \in 1..Len(q)}
C39_EarliestPendingTaskIsSelected ==
    [][/\ (phase = "exec" /\ phase' = "executing") =>
             /\ \A i \in Selected(execQueue') :
                   /\ tasks[i].status = "pending"
                   /\ \A j \in 1..(i - 1) :
                         ~(tasks[j].status = "pending"
                           /\ tasks[j].assigned_to = tasks[i].assigned_to)
             /\ \A i \in 1..Len(tasks) :
                   (tasks[i].status = "pending" /\ IsActive(tasks[i].assigned_to)) =>
                      \E j \in Selected(execQueue') :
                         tasks[j].assigned_to = tasks[i].assigned_to
       /\ (phase = "executing" /\ execQueue # <<>> /\ execQueue' = Tail(execQueue)
           /\ IsActive(tasks[Head(execQueue)].assigned_to)) =>
             tasks'[Head(execQueue)].status # "pending"]_vars

\* C40: while the system is paused no new scheduler cycle starts.
C40_NoCycleStartsWhilePaused ==
    [][sched.paused => cycle_count' = cycle_count]_vars

====
